---------------------------- MODULE Spec2Model ----------------------------
(***************************************************************************)
(* A model of bevy_mod_raycast: the Moller-Trumbore kernel, the linear     *)
(* mesh scan, the mesh octree and the scene query Raycast::cast_ray.       *)
(*                                                                         *)
(* Numbers.  The program computes in f32.  The model computes the same     *)
(* expressions exactly: vertices, ray origins and AABBs are integers, rays *)
(* are axis aligned (so that Ray3d::new's normalisation is exact), and a   *)
(* quotient is a reduced fraction [n, d] with d > 0.  The IEEE values of a *)
(* division by zero are kept: +inf is 1/0, -inf is -1/0 and NaN is 0/0,    *)
(* and every comparison with NaN is false.  Rounding is not modelled.      *)
(***************************************************************************)
EXTENDS Integers, Sequences, FiniteSets, TLC

VARIABLES
    entities,     \* the world: entity id -> its components
    ray,          \* the ray of the current Raycast::cast_ray call
    settings,     \* the RaycastSettings of the current call
    pc,           \* where the current call stands
    todo,         \* entities of culling_query that par_iter has not visited yet
    channel,      \* aabb_hits_tx / aabb_hits_rx: the messages sent, in order
    culled_list,  \* Raycast::culled_list
    hits,         \* Raycast::hits
    output,       \* Raycast::output
    prev_output,  \* what the previous call with the same inputs returned
    fn,           \* the pure function under test, and where its call stands
    arg,          \* its arguments
    ret,          \* its result
    stage,        \* the system of the deferred plugin that runs next
    pick_sources,    \* source id -> its RaycastSource<T>, Camera, GlobalTransform
    target_meshes,   \* entity -> its RaycastMesh components, and whether its
                     \* RaycastMesh<T> had intersections when
                     \* update_target_intersections last started
    previously_updated_raycast_meshes  \* the Local of update_target_intersections

deferredVars == <<stage, pick_sources, target_meshes,
                  previously_updated_raycast_meshes>>

vars == <<entities, ray, settings, pc, todo, channel, culled_list, hits,
          output, prev_output, fn, arg, ret, deferredVars>>

sceneVars == <<entities, ray, settings, pc, todo, channel, culled_list, hits,
               output, prev_output, deferredVars>>

fnVars == <<fn, arg, ret>>

-----------------------------------------------------------------------------
(* Integers, fractions and the IEEE special values *)

Abs(x) == IF x < 0 THEN -x ELSE x

Sign(x) == IF x < 0 THEN -1 ELSE IF x > 0 THEN 1 ELSE 0

RECURSIVE GCD(_, _)
GCD(a, b) == IF b = 0 THEN a ELSE GCD(b, a % b)

\* `let x = e; F(x)`: e is evaluated once and F is applied to its value.
Bind(e, F(_)) == CHOOSE r \in {F(x) : x \in {e}} : TRUE

PosInf == [n |-> 1, d |-> 0]

NegInf == [n |-> -1, d |-> 0]

NaN == [n |-> 0, d |-> 0]

IsNaN(a) == a.n = 0 /\ a.d = 0

\* The f32 quotient n / d.
FDiv(n, d) ==
    IF d = 0 THEN [n |-> Sign(n), d |-> 0]
    ELSE LET g == GCD(Abs(n), Abs(d))
         IN  [n |-> (Sign(d) * n) \div g, d |-> Abs(d) \div g]

FInt(x) == [n |-> x, d |-> 1]

\* f32 `a < b`: false when either side is NaN.
FLt(a, b) ==
    /\ ~IsNaN(a)
    /\ ~IsNaN(b)
    /\ IF a.d = 0 /\ b.d = 0 THEN a.n < b.n ELSE a.n * b.d < b.n * a.d

FGt(a, b) == FLt(b, a)

FLe(a, b) == ~IsNaN(a) /\ ~IsNaN(b) /\ ~FLt(b, a)

\* f32 `a * b` of two finite values.
FMul(a, b) == FDiv(a.n * b.n, a.d * b.d)

\* f32 `a + b` of two finite values.
FAdd(a, b) == FDiv(a.n * b.d + b.n * a.d, a.d * b.d)

-----------------------------------------------------------------------------
(* glam vectors with integer components *)

VSub(a, b) == <<a[1] - b[1], a[2] - b[2], a[3] - b[3]>>

VAdd(a, b) == <<a[1] + b[1], a[2] + b[2], a[3] + b[3]>>

VScale(a, k) == <<a[1] * k, a[2] * k, a[3] * k>>

Dot(a, b) == a[1] * b[1] + a[2] * b[2] + a[3] * b[3]

Cross(a, b) ==
    <<a[2] * b[3] - a[3] * b[2],
      a[3] * b[1] - a[1] * b[3],
      a[1] * b[2] - a[2] * b[1]>>

LengthSquared(a) == Dot(a, a)

\* Vec3::normalize of an axis-aligned vector: the unit vector of its axis.
Normalize(a) == <<Sign(a[1]), Sign(a[2]), Sign(a[3])>>

IsAxisAligned(a) == Abs(Sign(a[1])) + Abs(Sign(a[2])) + Abs(Sign(a[3])) = 1

\* Ray3d::new
Ray3dNew(origin, direction) ==
    [origin |-> origin, direction |-> Normalize(direction)]

-----------------------------------------------------------------------------
(* raycast.rs: the Moller-Trumbore kernel *)

\* `x < f32::EPSILON` for an integer x (EPSILON = 2^-23 lies strictly between
\* 0 and 1).
LtEpsilon(x) == x <= 0

NoRayHit == [some |-> FALSE]

\* A back-face test that culls under either policy.
MT_Culled_AlwaysCull(determinant, backface_culling) == LtEpsilon(determinant)

\* The determinant test of the kernel under the back-face policy.
MT_Culled(determinant, backface_culling) ==
    IF backface_culling = "Cull"
    THEN LtEpsilon(determinant)
    ELSE LtEpsilon(Abs(determinant))

raycast_moller_trumbore(r, triangle, backface_culling) ==
    LET vector_v0_to_v1 == VSub(triangle[2], triangle[1])
        vector_v0_to_v2 == VSub(triangle[3], triangle[1])
        p_vec == Cross(r.direction, vector_v0_to_v2)
        determinant == Dot(vector_v0_to_v1, p_vec)
        t_vec == VSub(r.origin, triangle[1])
        u == FDiv(Dot(t_vec, p_vec), determinant)
        q_vec == Cross(t_vec, vector_v0_to_v1)
        v == FDiv(Dot(r.direction, q_vec), determinant)
        t == FDiv(Dot(vector_v0_to_v2, q_vec), determinant)
    IN  IF MT_Culled(determinant, backface_culling) THEN NoRayHit
        ELSE IF ~(FLe(FInt(0), u) /\ FLe(u, FInt(1))) THEN NoRayHit
        ELSE IF FLt(v, FInt(0)) \/ FGt(FAdd(u, v), FInt(1)) THEN NoRayHit
        ELSE [some |-> TRUE, distance |-> t, uv_coords |-> <<u, v>>]

\* ray_triangle_intersection dispatches on the one algorithm there is.
ray_triangle_intersection(r, triangle, backface_culling) ==
    raycast_moller_trumbore(r, triangle, backface_culling)

-----------------------------------------------------------------------------
(* Transforms.  A GlobalTransform of the model is a translation and a      *)
(* uniform positive scale sn / sd; compute_matrix() is the matrix          *)
(* p |-> p * sn / sd + translation.                                        *)

\* Mat4::inverse followed by transform_point3.  The inputs are drawn so that
\* the quotient is exact.
InverseTransformPoint(m, p) ==
    LET q == VScale(VSub(p, m.translation), m.sd)
    IN  <<q[1] \div m.sn, q[2] \div m.sn, q[3] \div m.sn>>

\* Mat4::inverse followed by transform_vector3, up to the positive factor
\* 1 / sn, which Ray3d::new's normalisation removes.
InverseTransformVector(m, v) == VScale(v, m.sd)

\* The length of mesh_to_world.transform_vector3(direction * t) for a unit
\* direction and t > 0.
WorldLength(m, t) == FMul(t, FDiv(m.sn, m.sd))

\* The ray in the local frame of a mesh: lib.rs, ray_mesh_intersection, and
\* primitives.rs, Ray3d::intersects_aabb.
MeshSpaceRay(m, r) ==
    Ray3dNew(InverseTransformPoint(m, r.origin),
             InverseTransformVector(m, r.direction))

-----------------------------------------------------------------------------
(* lib.rs: the linear mesh scan *)

NoHit == [some |-> FALSE]

\* f32::MAX, the first min_pick_distance.  It lies above every distance of
\* the bounded inputs and its square overflows to +inf, so the model takes
\* +inf for it.
F32_MAX == PosInf

\* `(vertex - ray.origin).length_squared() < max_distance.powi(2)` for some
\* vertex of the triangle
AnyVertexWithin(tri_vertices, origin, max_distance) ==
    \E i \in 1..3 :
        FLt(FInt(LengthSquared(VSub(tri_vertices[i], origin))),
            FMul(max_distance, max_distance))

\* The hit of one triangle in mesh space, or none.
triangle_intersection(tri_vertices, tri_normals, max_distance, r, backface_culling) ==
    IF AnyVertexWithin(tri_vertices, r.origin, max_distance)
    THEN Bind(ray_triangle_intersection(r, tri_vertices, backface_culling),
              LAMBDA ray_hit :
                IF /\ ray_hit.some
                   /\ FGt(ray_hit.distance, FInt(0))
                   /\ FLt(ray_hit.distance, max_distance)
                THEN [some |-> TRUE, distance |-> ray_hit.distance,
                      uv_coords |-> ray_hit.uv_coords, normals |-> tri_normals]
                ELSE NoHit)
    ELSE NoHit

Panic == [kind |-> "panic"]

Returned(hit, warned) == [kind |-> "ok", hit |-> hit, warned |-> warned]

\* A slice index in range: a Rust index is 0-based, a TLA+ one 1-based.
InRange(seq, i) == i >= 0 /\ i < Len(seq)

At(seq, i) == seq[i + 1]

\* The three 0-based vertex indices of chunk k: the k-th chunk of the index
\* buffer, or 3k, 3k+1, 3k+2 for a mesh without indices.
ChunkIndices(indices, k) ==
    IF indices.some
    THEN <<At(indices.val, 3 * k), At(indices.val, 3 * k + 1), At(indices.val, 3 * k + 2)>>
    ELSE <<3 * k, 3 * k + 1, 3 * k + 2>>

\* The number of chunks `chunks(3)` yields: the last one may be short.
NumChunks(len) == (len + 2) \div 3

\* Whether reading chunk k indexes out of a buffer (a Rust panic).
\* Indexed: vertex_positions[index[i]] and normals[index[i]].  Not indexed:
\* vertex[i] of a short last chunk, and normals[0], normals[1], normals[2].
ChunkPanics(vertex_positions, vertex_normals, indices, k) ==
    IF indices.some
    THEN \E i \in 1..3 :
            \/ ~InRange(vertex_positions, ChunkIndices(indices, k)[i])
            \/ vertex_normals.some
               /\ ~InRange(vertex_normals.val, ChunkIndices(indices, k)[i])
    ELSE \/ ~InRange(vertex_positions, 3 * k + 2)
         \/ vertex_normals.some /\ ~InRange(vertex_normals.val, 2)

\* The indices of the normals read for chunk k.
NormalIndices(indices, k) ==
    IF indices.some THEN ChunkIndices(indices, k) ELSE <<0, 1, 2>>

TriNormals(vertex_normals, indices, k) ==
    IF vertex_normals.some
    THEN [some |-> TRUE,
          val |-> [i \in 1..3 |-> At(vertex_normals.val, NormalIndices(indices, k)[i])]]
    ELSE [some |-> FALSE]

TriVertexPositions(vertex_positions, indices, k) ==
    [i \in 1..3 |-> At(vertex_positions, ChunkIndices(indices, k)[i])]

\* The loop over the chunks from chunk k on, with the nearest hit so far.
RECURSIVE ScanChunks(_, _, _, _, _, _, _, _, _, _)
ScanChunks(mesh_to_world, vertex_positions, vertex_normals, mesh_space_ray, indices, backface_culling, n, k, min_pick_distance, pick_intersection) ==
    IF k >= n THEN Returned(pick_intersection, FALSE)
    ELSE IF ChunkPanics(vertex_positions, vertex_normals, indices, k) THEN Panic
    ELSE Bind(triangle_intersection(
                  TriVertexPositions(vertex_positions, indices, k),
                  TriNormals(vertex_normals, indices, k),
                  min_pick_distance, mesh_space_ray, backface_culling),
              LAMBDA i :
                IF i.some
                THEN ScanChunks(mesh_to_world, vertex_positions, vertex_normals,
                                mesh_space_ray, indices, backface_culling, n, k + 1,
                                i.distance,
                                [some |-> TRUE,
                                 distance |-> WorldLength(mesh_to_world, i.distance),
                                 triangle |-> k,
                                 uv_coords |-> i.uv_coords,
                                 normals |-> i.normals])
                ELSE ScanChunks(mesh_to_world, vertex_positions, vertex_normals,
                                mesh_space_ray, indices, backface_culling, n, k + 1,
                                min_pick_distance, pick_intersection))

ray_mesh_intersection(mesh_to_world, vertex_positions, vertex_normals, pick_ray, indices, backface_culling) ==
    IF indices.some /\ Len(indices.val) % 3 # 0
    THEN Returned(NoHit, TRUE)    \* warn!("Index list not a multiple of 3")
    ELSE Bind(MeshSpaceRay(mesh_to_world, pick_ray),
              LAMBDA mesh_space_ray :
                ScanChunks(mesh_to_world, vertex_positions, vertex_normals,
                           mesh_space_ray, indices, backface_culling,
                           NumChunks(IF indices.some THEN Len(indices.val)
                                     ELSE Len(vertex_positions)),
                           0, F32_MAX, NoHit))

ray_intersection_over_mesh(mesh, mesh_to_world, r, backface_culling) ==
    IF mesh.topology # "TriangleList"
    THEN Returned(NoHit, TRUE)    \* error!("Invalid intersection check: ...")
    ELSE IF ~mesh.positions.some THEN Panic
    ELSE ray_mesh_intersection(mesh_to_world, mesh.positions.val, mesh.normals,
                               r, mesh.indices, backface_culling)

-----------------------------------------------------------------------------
(* primitives.rs: ray against AABB, the slab method *)

\* One lane of Vec3A::min and Vec3A::max (minps / maxps): the second operand
\* when the comparison fails.
LaneMin(a, b) == IF FLt(a, b) THEN a ELSE b

LaneMax(a, b) == IF FGt(a, b) THEN a ELSE b

\* An Aabb is [center, half_extents, den]: its centre is center / den and
\* its half extents are half_extents / den, den a power of two, so that the
\* halvings of NodeAddr::compute_aabb stay exact.
Aabb(center, half_extents) == [center |-> center, half_extents |-> half_extents, den |-> 1]

\* Aabb::min and Aabb::max, times den.
AabbMin(aabb) == VSub(aabb.center, aabb.half_extents)

AabbMax(aabb) == VAdd(aabb.center, aabb.half_extents)

NoAabbHit == [some |-> FALSE]

\* Ray3d::intersects_local_aabb: [near, far] of the ray in the frame of the
\* box, or none.
intersects_local_aabb(r, aabb) ==
    LET t_0 == [i \in 1..3 |-> FDiv(AabbMin(aabb)[i] - r.origin[i] * aabb.den,
                                     r.direction[i] * aabb.den)]
        t_1 == [i \in 1..3 |-> FDiv(AabbMax(aabb)[i] - r.origin[i] * aabb.den,
                                     r.direction[i] * aabb.den)]
        t_min == [i \in 1..3 |-> LaneMin(t_0[i], t_1[i])]
        t_max == [i \in 1..3 |-> LaneMax(t_0[i], t_1[i])]
        near_x == t_min[1]
        far_x == t_max[1]
        near_y == IF FGt(t_min[2], near_x) THEN t_min[2] ELSE near_x
        far_y == IF FLt(t_max[2], far_x) THEN t_max[2] ELSE far_x
        near_z == IF FGt(t_min[3], near_y) THEN t_min[3] ELSE near_y
        far_z == IF FLt(t_max[3], far_y) THEN t_max[3] ELSE far_y
    IN  IF FGt(near_x, t_max[2]) \/ FGt(t_min[2], far_x) THEN NoAabbHit
        ELSE IF FGt(near_y, t_max[3]) \/ FGt(t_min[3], far_y) THEN NoAabbHit
        ELSE [some |-> TRUE, near |-> near_z, far |-> far_z]

\* Ray3d::intersects_aabb: the ray is taken to model space and normalised
\* there, so near and far are distances of the model frame.
intersects_aabb(r, aabb, model_to_world) ==
    intersects_local_aabb(MeshSpaceRay(model_to_world, r), aabb)

-----------------------------------------------------------------------------
(* system_param.rs: Raycast::cast_ray *)

\* ComputedVisibility::is_visible_in_hierarchy / is_visible_in_view
is_visible_in_hierarchy(visibility) == visibility.hierarchy

is_visible_in_view(visibility) == visibility.hierarchy /\ visibility.view

should_raycast(visibility_setting, visibility) ==
    IF visibility_setting = "Ignore" THEN TRUE
    ELSE IF visibility_setting = "MustBeVisible"
    THEN is_visible_in_hierarchy(visibility)
    ELSE is_visible_in_view(visibility)

\* The entities culling_query yields: those with a ComputedVisibility, an
\* Aabb, a GlobalTransform and a Handle<Mesh>.  Every entity of the model
\* has the first, the third and the fourth.
culling_query(world) == {e \in DOMAIN world : world[e].aabb.some}

\* What the for_each closure of the culling sends for an entity: a sequence
\* of no or one message (FloatOrd(near), entity).
CullMessage(r, visibility_setting, world, e) ==
    LET aabb_hit == intersects_aabb(r, world[e].aabb.val, world[e].transform)
    IN  IF /\ should_raycast(visibility_setting, world[e].visibility)
           /\ aabb_hit.some
           /\ FLe(FInt(0), aabb_hit.far)
        THEN << <<aabb_hit.near, e>> >>
        ELSE << >>

\* FloatOrd's total order on the values that are not NaN.
FloatOrdLt(a, b) == FLt(a, b)

FloatOrdLe(a, b) == ~FloatOrdLt(b, a)

\* Vec::sort_by_key, a stable sort, on the key that is the first component:
\* insertion of each element after the elements that are not greater.
RECURSIVE InsertByKey(_, _)
InsertByKey(sorted, x) ==
    IF sorted = << >> THEN <<x>>
    ELSE IF FloatOrdLe(Head(sorted)[1], x[1])
    THEN <<Head(sorted)>> \o InsertByKey(Tail(sorted), x)
    ELSE <<x>> \o sorted

RECURSIVE InsertAll(_, _)
InsertAll(sorted, seq) ==
    IF seq = << >> THEN sorted
    ELSE InsertAll(InsertByKey(sorted, Head(seq)), Tail(seq))

\* A sort_by_key that leaves the order as it finds it.
sort_by_key_Unsorted(seq) == seq

sort_by_key(seq) == InsertAll(<< >>, seq)

\* Assets<Mesh>::get
MeshOf(assets, handle) ==
    IF handle \in DOMAIN assets THEN [some |-> TRUE, val |-> assets[handle]]
    ELSE [some |-> FALSE]

Backfaces(no_backface_culling) ==
    IF no_backface_culling THEN "Include" ELSE "Cull"

\* The state of the narrow phase: the scratch buffer hits, the nearest
\* blocking hit so far, and whether a mesh made the call panic.
NarrowStart == [hits |-> << >>, nearest_blocking_hit |-> PosInf, panicked |-> FALSE]

\* `*aabb_near > nearest_blocking_hit`: the closure returns before the mesh
\* is looked at.
SkippedByEntry(aabb_near, nearest_blocking_hit) ==
    FloatOrdLt(nearest_blocking_hit, aabb_near)

\* An update of nearest_blocking_hit that does not ask early_exit_test.
NextBlockingHit_AlwaysBlocks(entity, s, distance, nearest_blocking_hit) ==
    IF FloatOrdLt(distance, nearest_blocking_hit)
    THEN distance ELSE nearest_blocking_hit

\* nearest_blocking_hit after a hit of `entity` at `distance`.
NextBlockingHit(entity, s, distance, nearest_blocking_hit) ==
    IF entity \in s.early_exit_test /\ FloatOrdLt(distance, nearest_blocking_hit)
    THEN distance ELSE nearest_blocking_hit

\* A choice of the mesh that never looks at SimplifiedMesh.
narrow_mesh_handle_Real(mesh_handle, simplified_mesh) == mesh_handle

\* simplified_mesh.map(|m| &m.mesh).unwrap_or(mesh_handle)
narrow_mesh_handle(mesh_handle, simplified_mesh) ==
    IF simplified_mesh.some THEN simplified_mesh.val ELSE mesh_handle

\* The closure raycast_mesh on one entry of culled_list.
raycast_mesh(assets, world, r, s, acc, entry) ==
    LET aabb_near == entry[1]
        entity == entry[2]
        c == world[entity]
        mesh_handle == narrow_mesh_handle(c.mesh, c.simplified_mesh)
        mesh == MeshOf(assets, mesh_handle)
    IN  IF SkippedByEntry(aabb_near, acc.nearest_blocking_hit) THEN acc
        ELSE IF ~mesh.some THEN acc
        ELSE Bind(ray_intersection_over_mesh(mesh.val, c.transform, r,
                                             Backfaces(c.no_backface_culling)),
                  LAMBDA res :
                    IF res.kind = "panic" THEN [acc EXCEPT !.panicked = TRUE]
                    ELSE IF ~res.hit.some THEN acc
                    ELSE [acc EXCEPT
                            !.nearest_blocking_hit =
                                NextBlockingHit(entity, s, res.hit.distance,
                                                acc.nearest_blocking_hit),
                            !.hits = Append(acc.hits,
                                            <<res.hit.distance, <<entity, res.hit>>>>)])

\* The for_each over the filtered culled_list.  A panic unwinds the call.
RECURSIVE NarrowPhase(_, _, _, _, _, _)
NarrowPhase(assets, world, r, s, acc, list) ==
    IF list = << >> \/ acc.panicked THEN acc
    ELSE Bind(raycast_mesh(assets, world, r, s, acc, Head(list)),
              LAMBDA next : NarrowPhase(assets, world, r, s, next, Tail(list)))

\* hits.retain(|(dist, _)| *dist <= nearest_blocking_hit)
retain_hits(hit_list, nearest_blocking_hit) ==
    LET Keep(h) == FloatOrdLe(h[1], nearest_blocking_hit)
    IN  SelectSeq(hit_list, Keep)

\* hits.iter().map(|(_, (e, i))| (*e, i.to_owned())).collect()
collect_output(hit_list) == [i \in 1..Len(hit_list) |-> hit_list[i][2]]

-----------------------------------------------------------------------------
(* The inputs of the scene query: mesh assets, entities, rays, settings *)

\* The number of entities of a scene.
MaxEntities == 2

None == [some |-> FALSE]

Some(x) == [some |-> TRUE, val |-> x]

\* A triangle in the plane x = px that the ray along +X through y = z = 0
\* meets from the front, and the ray along -X from the back.
Wall(px) == << <<px, -2, 4>>, <<px, 4, -2>>, <<px, -2, -2>> >>

TriangleListMesh(positions, indices) ==
    [topology |-> "TriangleList", positions |-> Some(positions),
     normals |-> None, indices |-> indices]

\* Assets<Mesh>.  The handle "unloaded" resolves to no mesh; "off_wall" is
\* the wall moved off the line of the rays.
MeshAssets ==
    [h \in {"wall", "two_walls", "bad_index", "odd_index", "off_wall"} |->
        CASE h = "wall" -> TriangleListMesh(Wall(0), None)
          [] h = "off_wall" ->
                TriangleListMesh([i \in 1..3 |-> VAdd(Wall(0)[i], <<0, 20, 0>>)], None)
          [] h = "two_walls" -> TriangleListMesh(Wall(0) \o Wall(2), Some(<<3, 4, 5, 0, 1, 2>>))
          [] h = "bad_index" -> TriangleListMesh(Wall(0), Some(<<0, 1, 3>>))
          [] h = "odd_index" -> TriangleListMesh(Wall(0), Some(<<0, 1>>))]

\* The Aabb of the meshes above, as Bevy computes it from the positions of
\* Wall(0).
WallAabb == Aabb(<<0, 1, 1>>, <<0, 3, 3>>)

Placed(translation, sn, sd) == [translation |-> translation, sn |-> sn, sd |-> sd]

Bundle(mesh, transform, aabb, hierarchy, view, no_backface_culling) ==
    [mesh |-> mesh, simplified_mesh |-> None, transform |-> transform,
     aabb |-> aabb, visibility |-> [hierarchy |-> hierarchy, view |-> view],
     no_backface_culling |-> no_backface_culling]

\* The entity with a SimplifiedMesh component.
Simplified(bundle, mesh) == [bundle EXCEPT !.simplified_mesh = Some(mesh)]

\* The entities a scene is made of.
EntityKinds ==
    { Bundle("wall", Placed(<<4, 0, 0>>, 1, 1), Some(WallAabb), TRUE, TRUE, FALSE),
      Bundle("wall", Placed(<<3, 0, 0>>, 1, 2), Some(WallAabb), TRUE, TRUE, TRUE),
      Bundle("two_walls", Placed(<<6, 0, 0>>, 2, 1), Some(WallAabb), TRUE, FALSE, FALSE),
      Bundle("wall", Placed(<<2, 0, 0>>, 1, 1), None, TRUE, TRUE, FALSE),
      Bundle("wall", Placed(<<8, 0, 0>>, 1, 1), Some(WallAabb), FALSE, FALSE, TRUE),
      Bundle("wall", Placed(<<-4, 0, 0>>, 1, 1), Some(WallAabb), TRUE, TRUE, TRUE),
      Bundle("wall", Placed(<<4, 20, 0>>, 1, 1), Some(WallAabb), TRUE, TRUE, FALSE),
      Bundle("bad_index", Placed(<<5, 0, 0>>, 1, 1), Some(WallAabb), TRUE, TRUE, FALSE),
      Bundle("odd_index", Placed(<<1, 0, 0>>, 1, 1), Some(WallAabb), TRUE, TRUE, FALSE),
      Bundle("unloaded", Placed(<<1, 0, 0>>, 1, 1), Some(WallAabb), TRUE, TRUE, FALSE) }

\* The entities of the scenes with SimplifiedMesh components.  The rays
\* pass through the mesh of the first and miss its simplified mesh, and the
\* other way round for the second; the simplified mesh of the third is not
\* loaded; the fourth has none.
SimplifiedKinds ==
    { Simplified(Bundle("wall", Placed(<<7, 0, 0>>, 1, 1), Some(WallAabb),
                        TRUE, TRUE, FALSE), "off_wall"),
      Simplified(Bundle("off_wall", Placed(<<9, 0, 0>>, 1, 1), Some(WallAabb),
                        TRUE, TRUE, TRUE), "wall"),
      Simplified(Bundle("wall", Placed(<<5, 0, 0>>, 1, 1), Some(WallAabb),
                        TRUE, TRUE, TRUE), "unloaded"),
      Bundle("wall", Placed(<<4, 0, 0>>, 1, 1), Some(WallAabb), TRUE, TRUE, FALSE) }

Entities == 1..MaxEntities

Scenes == [Entities -> EntityKinds]

Rays == { Ray3dNew(<<0, 0, 0>>, <<1, 0, 0>>), Ray3dNew(<<10, 0, 0>>, <<-1, 0, 0>>) }

VisibilityModes == {"Ignore", "MustBeVisible", "MustBeVisibleAndInView"}

\* RaycastSettings: filter and early_exit_test are given by the set of
\* entities they return true for.  always_early_exit is Entities,
\* never_early_exit is {}.
SettingsSet ==
    [visibility : VisibilityModes,
     filter : {Entities, Entities \ {1}},
     early_exit_test : {Entities, {}, {1}}]

-----------------------------------------------------------------------------
(* The scene query as a state machine *)

FnIdle == fn = "none" /\ arg = << >> /\ ret = << >>

\* The deferred plugin is not part of the app.
DeferredOff ==
    /\ stage = "off"
    /\ pick_sources = << >>
    /\ target_meshes = << >>
    /\ previously_updated_raycast_meshes = << >>

Init ==
    /\ entities \in Scenes
    /\ ray \in Rays
    /\ settings \in SettingsSet
    /\ pc = "idle"
    /\ todo = {}
    /\ channel = << >>
    /\ culled_list = << >>
    /\ hits = << >>
    /\ output = << >>
    /\ prev_output = None
    /\ FnIdle
    /\ DeferredOff

\* A clear that leaves the buffer as it finds it.
clear_Keeps(buffer) == buffer

\* Vec::clear
clear(buffer) == << >>

\* Raycast::cast_ray is entered: the scratch buffers are cleared and the
\* parallel iteration over culling_query starts.  A call that follows a
\* call with the same inputs remembers what that one returned.
CastRay(r, s) ==
    /\ pc \in {"idle", "done"}
    /\ ray' = r
    /\ settings' = s
    /\ prev_output' = IF pc = "done" /\ r = ray /\ s = settings
                      THEN Some(output) ELSE None
    /\ hits' = clear(hits)
    /\ culled_list' = clear(culled_list)
    /\ output' = clear(output)
    /\ channel' = << >>
    /\ todo' = culling_query(entities)
    /\ pc' = "culling"
    /\ UNCHANGED <<entities, fn, arg, ret, deferredVars>>

\* One run of the par_iter().for_each closure, on entity e.
CullEntity(e) ==
    /\ pc = "culling"
    /\ e \in todo
    /\ todo' = todo \ {e}
    /\ channel' = channel \o CullMessage(ray, settings.visibility, entities, e)
    /\ UNCHANGED <<entities, ray, settings, pc, culled_list, hits, output,
                   prev_output, fn, arg, ret, deferredVars>>

\* A filter that lets every entry through.
FilteredList_Unfiltered(list, s) == list

\* culled_list.iter().filter(|(_, entity)| (settings.filter)(*entity))
FilteredList(list, s) ==
    LET Keep(entry) == entry[2] \in s.filter
    IN  SelectSeq(list, Keep)

\* The rest of cast_ray once every closure has run: collect and sort the
\* channel, run the narrow phase, which pushes to the buffer hits, retain,
\* sort, and return the output.
Collect ==
    /\ pc = "culling"
    /\ todo = {}
    /\ \E sorted \in {sort_by_key(channel)} :
       \E acc \in {NarrowPhase(MeshAssets, entities, ray, settings,
                                [NarrowStart EXCEPT !.hits = hits],
                                FilteredList(sorted, settings))} :
       \E kept \in {sort_by_key(retain_hits(acc.hits, acc.nearest_blocking_hit))} :
           /\ culled_list' = sorted
           /\ IF acc.panicked
              THEN /\ hits' = acc.hits
                   /\ output' = output
                   /\ pc' = "panicked"
              ELSE /\ hits' = kept
                   /\ output' = collect_output(kept)
                   /\ pc' = "done"
    /\ UNCHANGED <<entities, ray, settings, todo, channel, prev_output, fn, arg, ret,
                   deferredVars>>

Next ==
    \/ \E r \in Rays, s \in SettingsSet : CastRay(r, s)
    \/ \E e \in Entities : CullEntity(e)
    \/ Collect

Spec == Init /\ [][Next]_vars

\* The scene query on the scenes with SimplifiedMesh components.
InitSimplified ==
    /\ entities \in [Entities -> SimplifiedKinds]
    /\ ray \in Rays
    /\ settings \in SettingsSet
    /\ pc = "idle"
    /\ todo = {}
    /\ channel = << >>
    /\ culled_list = << >>
    /\ hits = << >>
    /\ output = << >>
    /\ prev_output = None
    /\ FnIdle
    /\ DeferredOff

SpecSimplified == InitSimplified /\ [][Next]_vars

-----------------------------------------------------------------------------
(* What the claims about the scene query speak of *)

\* Comparison of two finite fractions with positive denominators.
RatLe(a, b) == a.n * b.d <= b.n * a.d

RatLt(a, b) == a.n * b.d < b.n * a.d

OutputEntities == {output[i][1] : i \in 1..Len(output)}

OutputDistance(i) == output[i][2].distance

CulledEntities == {culled_list[i][2] : i \in 1..Len(culled_list)}

\* The visibility an entity needs under a visibility mode.
VisibleFor(mode, c) ==
    CASE mode = "Ignore" -> TRUE
      [] mode = "MustBeVisible" -> c.visibility.hierarchy
      [] mode = "MustBeVisibleAndInView" -> c.visibility.hierarchy /\ c.visibility.view

\* The entity has an Aabb and the ray meets it with far >= 0.
PassesAabb(c, r) ==
    /\ c.aabb.some
    /\ LET h == intersects_aabb(r, c.aabb.val, c.transform)
       IN  h.some /\ RatLe(FInt(0), h.far)

\* The mesh the narrow phase would use for an entity, when it is loaded.
NarrowHandle(c) == IF c.simplified_mesh.some THEN c.simplified_mesh.val ELSE c.mesh

IndicesInRange(mesh) ==
    \A i \in 1..Len(mesh.indices.val) :
        mesh.indices.val[i] \in 0..(Len(mesh.positions.val) - 1)

\* A mesh that satisfies the mesh contract: triangle list, positions, and
\* index triplets in range.
WellFormedMesh(mesh) ==
    /\ mesh.topology = "TriangleList"
    /\ mesh.positions.some
    /\ IF mesh.indices.some
       THEN Len(mesh.indices.val) % 3 = 0 /\ IndicesInRange(mesh)
       ELSE Len(mesh.positions.val) % 3 = 0

MalformedIndices(mesh) ==
    /\ mesh.topology = "TriangleList"
    /\ mesh.positions.some
    /\ mesh.indices.some
    /\ ~(Len(mesh.indices.val) % 3 = 0 /\ IndicesInRange(mesh))

NumTriangles(mesh) ==
    IF mesh.indices.some THEN Len(mesh.indices.val) \div 3
    ELSE Len(mesh.positions.val) \div 3

TriangleOf(mesh, k) == TriVertexPositions(mesh.positions.val, mesh.indices, k)

\* The world-space distances at which the ray pierces the triangles of the
\* narrow-phase mesh of an entity, ahead of the ray origin.
PierceDistances(c, r) ==
    IF NarrowHandle(c) \notin DOMAIN MeshAssets THEN {}
    ELSE LET mesh == MeshAssets[NarrowHandle(c)]
         IN  IF ~WellFormedMesh(mesh) THEN {}
             ELSE { WorldLength(c.transform, h.distance) :
                      h \in { x \in { raycast_moller_trumbore(
                                          MeshSpaceRay(c.transform, r),
                                          TriangleOf(mesh, k),
                                          Backfaces(c.no_backface_culling)) :
                                      k \in 0..(NumTriangles(mesh) - 1) } :
                              x.some /\ x.distance.n > 0 } }

MeshIsHit(c, r) == PierceDistances(c, r) # {}

\* The smallest of a non-empty set of distances.
MinDistance(ds) == CHOOSE d \in ds : \A x \in ds : RatLe(d, x)

\* An entity the query may report: visible under the mode, met by the ray
\* in its Aabb, accepted by the filter, and hit in its mesh.
EligibleHit(e) ==
    /\ VisibleFor(settings.visibility, entities[e])
    /\ PassesAabb(entities[e], ray)
    /\ e \in settings.filter
    /\ MeshIsHit(entities[e], ray)

EligibleHits == {e \in Entities : EligibleHit(e)}

PositionIn(seq, e) == CHOOSE i \in 1..Len(seq) : seq[i][2] = e

-----------------------------------------------------------------------------
(* Claims about Raycast::cast_ray *)

\* C1: the list cast_ray returns is sorted by world-space hit distance,
\* nearest first: distance(i) <= distance(j) for i < j.
C1_OutputSorted ==
    pc = "done" =>
        \A i, j \in 1..Len(output) :
            i < j => RatLe(OutputDistance(i), OutputDistance(j))

\* A returned list of two hits at different distances whose entities stood
\* in the other order in culled_list: the final sort reordered the hits.
C1_Witness ==
    /\ pc = "done"
    /\ Len(output) >= 2
    /\ RatLt(OutputDistance(1), OutputDistance(2))
    /\ PositionIn(culled_list, output[2][1]) < PositionIn(culled_list, output[1][1])

\* C2, as claimed: with early_exit_test true for every entity the list is
\* non-empty iff some eligible entity is hit, and its first element is at
\* the smallest hit distance among the eligible entities.
C2_NearestBlockingHit ==
    (pc = "done" /\ settings.early_exit_test = Entities) =>
        /\ (output # << >>) <=> (EligibleHits # {})
        /\ output # << >> =>
              OutputDistance(1) =
                  MinDistance(UNION {PierceDistances(entities[e], ray) : e \in EligibleHits})

\* C3: with early_exit_test false for every entity the list holds exactly
\* one hit for each entity that is visible under the mode, passes the Aabb
\* test with far >= 0, passes the filter and whose mesh is hit.
C3_EveryHit ==
    (pc = "done" /\ settings.early_exit_test = {}) =>
        /\ OutputEntities = EligibleHits
        /\ Len(output) = Cardinality(EligibleHits)

\* Two entities are hit and both are returned, the one with the larger
\* Aabb entry distance included.
C3_Witness ==
    /\ pc = "done"
    /\ settings.early_exit_test = {}
    /\ Len(output) = 2
    /\ output[1][1] # output[2][1]
    /\ RatLt(OutputDistance(1), OutputDistance(2))

\* C4, as claimed: a call that follows a call with the same ray, settings,
\* entities and meshes returns the same list.
C4_Deterministic ==
    (pc = "done" /\ prev_output.some) => output = prev_output.val

\* C8, as claimed: an entity without an Aabb that is visible under the mode
\* is passed on by the broad phase, so it stands in culled_list.
C8_NoAabbNeverCulled ==
    pc = "done" =>
        \A e \in Entities :
            (~entities[e].aabb.some /\ VisibleFor(settings.visibility, entities[e]))
                => e \in CulledEntities

\* C9: every entity of the returned list satisfies the filter and the
\* visibility mode of the settings.
C9_FilterAndVisibility ==
    pc = "done" =>
        \A e \in OutputEntities :
            /\ e \in settings.filter
            /\ VisibleFor(settings.visibility, entities[e])

\* A list is returned that leaves out an entity the ray hits: the entity is
\* visible under the mode and met in its Aabb, and the filter rejects it.
C9_Witness ==
    /\ pc = "done"
    /\ output # << >>
    /\ \E e \in Entities \ OutputEntities :
          /\ e \notin settings.filter
          /\ MeshIsHit(entities[e], ray)
          /\ PassesAabb(entities[e], ray)
          /\ VisibleFor(settings.visibility, entities[e])

\* C10, as claimed: a candidate mesh with malformed indices is dropped and
\* the call goes on; it does not abort.
C10_MalformedDropped ==
    (\E e \in Entities :
        /\ NarrowHandle(entities[e]) \in DOMAIN MeshAssets
        /\ MalformedIndices(MeshAssets[NarrowHandle(entities[e])]))
    => pc # "panicked"

-----------------------------------------------------------------------------
(* The pure functions, each called once on an input of a bounded set.  The  *)
(* scene query stands still meanwhile.                                      *)

SceneOff ==
    /\ entities = << >>
    /\ ray = Ray3dNew(<<0, 0, 0>>, <<1, 0, 0>>)
    /\ settings = [visibility |-> "Ignore", filter |-> {}, early_exit_test |-> {}]
    /\ pc = "off"
    /\ todo = {}
    /\ channel = << >>
    /\ culled_list = << >>
    /\ hits = << >>
    /\ output = << >>
    /\ prev_output = None
    /\ DeferredOff

Policies == {"Cull", "Include"}

\* The triangles of the kernel have their vertices on a grid of this half
\* width.
KernelGrid == 1

KernelPoints(xs) ==
    {<<x, y, z>> : x \in xs, y \in (-KernelGrid)..KernelGrid, z \in (-KernelGrid)..KernelGrid}

\* Triangles in the plane x = 1 or tilted out of it by their second vertex;
\* the set has every triangle in both windings, and degenerate ones.
KernelTriangles ==
    {<<a, b, c>> : a \in KernelPoints({1}), b \in KernelPoints({1, 2}), c \in KernelPoints({1})}

\* Towards the triangles, away from them, and along their plane.
KernelRays ==
    { Ray3dNew(<<0, 0, 0>>, <<1, 0, 0>>),
      Ray3dNew(<<0, 0, 0>>, <<-1, 0, 0>>),
      Ray3dNew(<<1, -2, 0>>, <<0, 1, 0>>) }

InitKernel ==
    /\ SceneOff
    /\ fn = "raycast_moller_trumbore"
    /\ arg \in [ray : KernelRays, triangle : KernelTriangles, backface_culling : Policies]
    /\ ret = << >>

CallKernel ==
    /\ fn = "raycast_moller_trumbore"
    /\ ret = << >>
    /\ ret' = <<raycast_moller_trumbore(arg.ray, arg.triangle, arg.backface_culling)>>
    /\ UNCHANGED <<sceneVars, fn, arg>>

NextKernel == CallKernel

SpecKernel == InitKernel /\ [][NextKernel]_vars

\* The triangles of the meshes of the linear scan.  BigWall(px) is Wall(px)
\* ten times as large: the ray meets it at the same point, and its vertices
\* are far from the ray origin.
BigWall(px) == << <<px, -20, 40>>, <<px, 40, -20>>, <<px, -20, -20>> >>

Reversed(triangle) == <<triangle[3], triangle[2], triangle[1]>>

Shifted(triangle, by) == [i \in 1..3 |-> VAdd(triangle[i], by)]

ScanTriangles ==
    { Wall(5), Wall(2), BigWall(1), BigWall(3), Reversed(Wall(4)),
      Shifted(Wall(1), <<0, 20, 0>>) }

\* The number of triangles of a mesh of the linear scan.
MaxTris == 2

RECURSIVE Flatten(_)
Flatten(tris) == IF tris = << >> THEN << >> ELSE Head(tris) \o Flatten(Tail(tris))

TriangleLists == UNION {[1..n -> ScanTriangles] : n \in 1..MaxTris}

\* A mesh of the triangles, with the index buffer 0, 1, 2, ... or without one.
MeshOfTriangles(tris, indexed) ==
    TriangleListMesh(Flatten(tris),
                     IF indexed THEN Some([i \in 1..(3 * Len(tris)) |-> i - 1]) ELSE None)

ScanMeshes == {MeshOfTriangles(tris, indexed) : tris \in TriangleLists, indexed \in BOOLEAN}

ScanTransforms == {Placed(<<0, 0, 0>>, 1, 1), Placed(<<0, 0, 0>>, 2, 1)}

InitMesh ==
    /\ SceneOff
    /\ fn = "ray_mesh_intersection"
    /\ arg \in [mesh : ScanMeshes, mesh_to_world : ScanTransforms, ray : Rays,
                backface_culling : Policies]
    /\ ret = << >>

CallMesh ==
    /\ fn = "ray_mesh_intersection"
    /\ ret = << >>
    /\ ret' = <<ray_mesh_intersection(arg.mesh_to_world, arg.mesh.positions.val,
                                      arg.mesh.normals, arg.ray, arg.mesh.indices,
                                      arg.backface_culling)>>
    /\ UNCHANGED <<sceneVars, fn, arg>>

NextMesh == CallMesh

SpecMesh == InitMesh /\ [][NextMesh]_vars

-----------------------------------------------------------------------------
(* Claims about the kernel and the linear scan *)

\* The determinant of the kernel: positive when the ray meets the front of
\* the triangle, negative when it meets the back.
Determinant(r, triangle) ==
    Dot(VSub(triangle[2], triangle[1]),
        Cross(r.direction, VSub(triangle[3], triangle[1])))

\* The line of the ray pierces the triangle: it crosses the plane of the
\* triangle in a point that lies on the inner side of the three edges.
\* With n the normal and dn = direction . n, the point is P / dn.
PiercesTriangle(r, triangle) ==
    LET n == Cross(VSub(triangle[2], triangle[1]), VSub(triangle[3], triangle[1]))
        dn == Dot(r.direction, n)
        P == VAdd(VScale(r.origin, dn),
                  VScale(r.direction, Dot(VSub(triangle[1], r.origin), n)))
        Inner(a, b) ==
            Sign(dn) * Dot(Cross(VSub(b, a), VSub(P, VScale(a, dn))), n) >= 0
    IN  /\ dn # 0
        /\ Inner(triangle[1], triangle[2])
        /\ Inner(triangle[2], triangle[3])
        /\ Inner(triangle[3], triangle[1])

KernelReturned == fn = "raycast_moller_trumbore" /\ ret # << >>

\* C7: with Cull the kernel returns no hit when the determinant is negative
\* (the ray meets the back of the triangle); with Include it returns a hit
\* whenever the ray pierces the triangle, and then also for the triangle in
\* the other winding, at the same distance.
C7_BackfacePolicy ==
    KernelReturned =>
        /\ (arg.backface_culling = "Cull" /\ Determinant(arg.ray, arg.triangle) < 0)
              => ~ret[1].some
        /\ (arg.backface_culling = "Include" /\ PiercesTriangle(arg.ray, arg.triangle))
              => /\ ret[1].some
                 /\ LET other == raycast_moller_trumbore(arg.ray, Reversed(arg.triangle),
                                                         "Include")
                    IN  other.some /\ other.distance = ret[1].distance

\* The ray pierces a triangle from the back, ahead of its origin: Cull has
\* returned no hit, and Include returns one for the same ray and triangle.
C7_Witness ==
    /\ KernelReturned
    /\ arg.backface_culling = "Cull"
    /\ Determinant(arg.ray, arg.triangle) < 0
    /\ PiercesTriangle(arg.ray, arg.triangle)
    /\ ~ret[1].some
    /\ LET included == raycast_moller_trumbore(arg.ray, arg.triangle, "Include")
       IN  included.some /\ included.distance.n > 0

MeshReturned == fn = "ray_mesh_intersection" /\ ret # << >>

\* The mesh-space distances t > 0 at which the kernel hits the triangles of
\* the mesh under the policy.
KernelDistances(mesh, mesh_to_world, r, backface_culling) ==
    { h.distance :
        h \in { x \in { raycast_moller_trumbore(MeshSpaceRay(mesh_to_world, r),
                                                TriangleOf(mesh, k), backface_culling) :
                        k \in 0..(NumTriangles(mesh) - 1) } :
                x.some /\ x.distance.n > 0 } }

\* C5, as claimed: the scan returns none when the kernel hits no triangle
\* with t > 0, and otherwise the hit of a triangle with the minimum such t.
C5_NearestHitOfMesh ==
    MeshReturned =>
        LET ts == KernelDistances(arg.mesh, arg.mesh_to_world, arg.ray,
                                  arg.backface_culling)
        IN  /\ ret[1].kind = "ok"
            /\ ret[1].hit.some <=> ts # {}
            /\ ret[1].hit.some =>
                  /\ ret[1].hit.distance = WorldLength(arg.mesh_to_world, MinDistance(ts))
                  /\ raycast_moller_trumbore(
                         MeshSpaceRay(arg.mesh_to_world, arg.ray),
                         TriangleOf(arg.mesh, ret[1].hit.triangle),
                         arg.backface_culling).distance = MinDistance(ts)

-----------------------------------------------------------------------------
(* octree/node.rs: NodeMask, NodeKind and NodeAddr *)

\* The number of values of a u16, the type of NodeMask::children.
U16 == 65536

\* The width of a u32, the type of NodeAddr::address.
ADDRESS_BITS == 32

N_CHILD_NODES == 8

EMPTY == 0

NODE == 1

LEAF == 2

MAX_NODE_DEPTH == 10

\* `a & m` for a mask m of one bit: 0 or m.
BitAnd(a, m) == ((a \div m) % 2) * m

\* An address is the sequence of the bits of the u32, the most significant
\* first and without leading zeros; 0 is the empty sequence.
RECURSIVE StripZeros(_)
StripZeros(b) == IF b # << >> /\ Head(b) = 0 THEN StripZeros(Tail(b)) ELSE b

\* The low 32 bits.
Truncate(b) ==
    StripZeros(IF Len(b) > ADDRESS_BITS
               THEN SubSeq(b, Len(b) - ADDRESS_BITS + 1, Len(b)) ELSE b)

\* `address >> k`
ShiftRight(b, k) == SubSeq(b, 1, Len(b) - k)

\* Bit k of the address, bit 0 the least significant.
BitOf(b, k) == IF Len(b) > k THEN b[Len(b) - k] ELSE 0

\* u32::leading_zeros
leading_zeros(b) == ADDRESS_BITS - Len(b)

\* 0b10
new_root == <<1, 0>>

\* A push_bits without `new.address >>= 1`: the node/leaf bit stays.
push_bits_KeepsLeafBit(address, bits, leaf) ==
    Truncate(address
             \o <<(bits \div 4) % 2, (bits \div 2) % 2, bits % 2,
                  IF leaf THEN 1 ELSE 0>>)

\* The address loses its last bit, moves four bits up within the u32, and
\* takes the three bits of the child and the leaf bit.
push_bits(address, bits, leaf) ==
    Truncate(ShiftRight(address, 1)
             \o <<(bits \div 4) % 2, (bits \div 2) % 2, bits % 2,
                  IF leaf THEN 1 ELSE 0>>)

is_leaf(address) == BitOf(address, 0) = 1

depth(address) ==
    LET lead == leading_zeros(address)
        address_bits == IF 30 >= lead THEN 30 - lead ELSE 0
    IN  address_bits \div 3

\* The loop of compute_aabb with n rounds left.  x, y and z are the masked
\* values addr & 0b100, addr & 0b010 and addr & 0b001: 4 or 0, 2 or 0, 1 or 0.  Halving the half extents
\* doubles den.
RECURSIVE ComputeAabbLoop(_, _, _)
ComputeAabbLoop(aabb, addr, n) ==
    IF n = 0 \/ addr = <<1>> THEN aabb
    ELSE LET offset == <<4 * BitOf(addr, 2) * 2 - 1,
                         2 * BitOf(addr, 1) * 2 - 1,
                         BitOf(addr, 0) * 2 - 1>>
             halved == [center |->
                            [i \in 1..3 |-> 2 * aabb.center[i]
                                            + aabb.half_extents[i] * offset[i]],
                        half_extents |-> aabb.half_extents,
                        den |-> 2 * aabb.den]
         IN  ComputeAabbLoop(halved, ShiftRight(addr, 3), n - 1)

compute_aabb(address, mesh_aabb) ==
    ComputeAabbLoop(mesh_aabb, ShiftRight(address, 1), MAX_NODE_DEPTH)

-----------------------------------------------------------------------------
(* primitives.rs: Triangle::intersects_aabb, the separating axis test *)

Max3(a, b, c) == IF a >= b /\ a >= c THEN a ELSE IF b >= c THEN b ELSE c

Min3(a, b, c) == IF a <= b /\ a <= c THEN a ELSE IF b <= c THEN b ELSE c

\* axis_test_failed; h and v carry the factor den of the box.
axis_test_failed(h, v, e, f) ==
    LET a == Cross(e, f)
        p0 == Dot(v[1], a)
        p1 == Dot(v[2], a)
        p2 == Dot(v[3], a)
        r == h[1] * Abs(a[1]) + h[2] * Abs(a[2]) + h[3] * Abs(a[3])
    IN  Max3(p0, p1, p2) < -r \/ Min3(p0, p1, p2) > r

triangle_intersects_aabb(tri, aabb) ==
    LET h == aabb.half_extents
        v == [i \in 1..3 |-> VSub(VScale(tri[i], aabb.den), aabb.center)]
        f == <<VSub(tri[2], tri[1]), VSub(tri[3], tri[2]), VSub(tri[1], tri[3])>>
        plane_norm == Cross(f[1], f[2])
        plane_dist == Abs(Dot(plane_norm, v[1]))
        r == h[1] * Abs(plane_norm[1]) + h[2] * Abs(plane_norm[2])
             + h[3] * Abs(plane_norm[3])
        e == << <<1, 0, 0>>, <<0, 1, 0>>, <<0, 0, 1>> >>
    IN  /\ \A k \in 1..3 :
              ~(\/ Max3(v[1][k], v[2][k], v[3][k]) < -h[k]
                \/ Min3(v[1][k], v[2][k], v[3][k]) > h[k])
        /\ ~(plane_dist > r)
        /\ \A i \in 1..3 : \A j \in 1..3 : ~axis_test_failed(h, v, e[i], f[j])

-----------------------------------------------------------------------------
(* octree/mod.rs: MeshAccessor and MeshOctree *)

Ok(x) == [kind |-> "ok", val |-> x]

\* MeshAccessor::get_triangle of octree/mod.rs: none when the index buffer
\* is too short, a panic when a vertex is read out of the buffer.
get_triangle(mesh, index) ==
    LET verts == mesh.positions.val
        at == IF mesh.indices.some
              THEN [i \in 1..3 |-> At(mesh.indices.val, index * 3 + i - 1)]
              ELSE [i \in 1..3 |-> index * 3 + i - 1]
    IN  IF mesh.indices.some /\ Len(mesh.indices.val) <= index * 3 + 2
        THEN Ok([some |-> FALSE])
        ELSE IF \E i \in 1..3 : ~InRange(verts, at[i]) THEN Panic
        ELSE Ok([some |-> TRUE, val |-> [i \in 1..3 |-> At(verts, at[i])]])

\* MeshAccessor::iter_triangles from index i on: one index per vertex, as
\* long as get_triangle yields a triangle.
RECURSIVE IterTriangles(_, _, _)
IterTriangles(mesh, i, acc) ==
    IF i >= Len(mesh.positions.val) THEN Ok(acc)
    ELSE Bind(get_triangle(mesh, i),
              LAMBDA t :
                IF t.kind = "panic" THEN Panic
                ELSE IF ~t.val.some THEN Ok(acc)
                ELSE IterTriangles(mesh, i + 1, Append(acc, i)))

iter_triangles(mesh) == IterTriangles(mesh, 0, << >>)

\* MeshAccessor::triangle_normals reads out of the normals: a panic.
TriangleNormalsPanics(mesh, index) ==
    /\ mesh.normals.some
    /\ \E i \in 1..3 :
          ~InRange(mesh.normals.val,
                   IF mesh.indices.some
                   THEN At(mesh.indices.val, index * 3 + i - 1)
                   ELSE index * 3 + i - 1)

\* HashMap::insert
MapInsert(m, k, v) == [a \in DOMAIN m \cup {k} |-> IF a = k THEN v ELSE m[a]]

\* The parent triangles that meet the box of child octree_node: the child
\* address, a node address, and its triangles.
triangle_node_intersections(octree_node, parent_addr, parent_tris, mesh, mesh_aabb) ==
    Bind(push_bits(parent_addr, octree_node, FALSE),
         LAMBDA child_addr :
           Bind(compute_aabb(child_addr, mesh_aabb),
                LAMBDA aabb :
                  LET Meets(tri) ==
                          LET t == get_triangle(mesh, tri)
                          IN  /\ t.kind = "ok"
                              /\ t.val.some
                              /\ triangle_intersects_aabb(t.val.val, aabb)
                  IN  <<child_addr, SelectSeq(parent_tris, Meets)>>))

MIN_TRIS_PER_LEAF == 8

\* An evaluate_child_node that stops one level later.
evaluate_child_node_OneDeeper(child_addr, triangles, st) ==
    LET parent_bits == (st.children * 4) % U16
    IN  IF Len(triangles) = 0
        THEN [st EXCEPT !.children = parent_bits + EMPTY]
        ELSE IF Len(triangles) <= MIN_TRIS_PER_LEAF \/ depth(child_addr) > MAX_NODE_DEPTH
        THEN [st EXCEPT !.children = parent_bits + LEAF,
                        !.leaves = MapInsert(st.leaves, child_addr, triangles)]
        ELSE [st EXCEPT !.children = parent_bits + NODE,
                        !.op_stack = Append(st.op_stack, <<child_addr, triangles>>)]

\* evaluate_child_node on the state st of the parent's round: the mask of
\* the parent, the leaves and the stack of from_mesh.
evaluate_child_node(child_addr, triangles, st) ==
    LET parent_bits == (st.children * 4) % U16
    IN  IF Len(triangles) = 0
        THEN [st EXCEPT !.children = parent_bits + EMPTY]
        ELSE IF Len(triangles) <= MIN_TRIS_PER_LEAF \/ depth(child_addr) >= MAX_NODE_DEPTH
        THEN [st EXCEPT !.children = parent_bits + LEAF,
                        !.leaves = MapInsert(st.leaves, child_addr, triangles)]
        ELSE [st EXCEPT !.children = parent_bits + NODE,
                        !.op_stack = Append(st.op_stack, <<child_addr, triangles>>)]

\* The children i, i + 1, ..., 7 of one parent.
RECURSIVE EvaluateChildren(_, _, _, _, _, _)
EvaluateChildren(i, parent_addr, parent_tris, mesh, aabb, st) ==
    IF i >= N_CHILD_NODES THEN st
    ELSE Bind(triangle_node_intersections(i, parent_addr, parent_tris, mesh, aabb),
              LAMBDA child :
                Bind(evaluate_child_node(child[1], child[2], st),
                     LAMBDA next :
                       EvaluateChildren(i + 1, parent_addr, parent_tris, mesh, aabb, next)))

\* The while loop of from_mesh.
RECURSIVE FromMeshLoop(_, _, _, _, _)
FromMeshLoop(nodes, leaves, op_stack, mesh, aabb) ==
    IF op_stack = << >> THEN [nodes |-> nodes, leaves |-> leaves]
    ELSE Bind(EvaluateChildren(0, op_stack[Len(op_stack)][1], op_stack[Len(op_stack)][2],
                               mesh, aabb,
                               [children |-> 0, leaves |-> leaves,
                                op_stack |-> SubSeq(op_stack, 1, Len(op_stack) - 1)]),
              LAMBDA st :
                FromMeshLoop(MapInsert(nodes, op_stack[Len(op_stack)][1], st.children),
                             st.leaves, st.op_stack, mesh, aabb))

\* MeshOctree::from_mesh
from_mesh(mesh, aabb) ==
    IF ~mesh.positions.some THEN Panic
    ELSE Bind(iter_triangles(mesh),
              LAMBDA root_tris :
                IF root_tris.kind = "panic" THEN Panic
                ELSE Ok(FromMeshLoop(<< >>, << >>, <<<<new_root, root_tris.val>>>>,
                                     mesh, aabb)))

\* MeshOctree::node_intersect_order: the children by the projection of
\* (i & 4, i & 2, i & 1) on the ray direction, a stable sort.
node_intersect_order(r) ==
    LET distances ==
            [k \in 1..8 |->
                <<FInt(Dot(<<BitAnd(k - 1, 4), BitAnd(k - 1, 2), BitAnd(k - 1, 1)>>,
                           r.direction)),
                  k - 1>>]
        sorted == InsertAll(<< >>, distances)
    IN  [k \in 1..8 |-> sorted[k][2]]

\* The slot of child i as expand_child_nodes reads it.
ChildState(children, i) == (children \div (2 ^ (i * 2))) % 4

\* MeshOctree::expand_child_nodes: the addresses of the children that are
\* not empty and whose box the ray meets, farthest first.
expand_child_nodes(octree, node_addr, node_order, mesh_aabb, r) ==
    IF node_addr \notin DOMAIN octree.nodes THEN Panic
    ELSE LET children == octree.nodes[node_addr]
             Address(i) == push_bits(node_addr, i, ChildState(children, i) = LEAF)
             Kept(i) ==
                 /\ ChildState(children, i) # EMPTY
                 /\ intersects_local_aabb(r, compute_aabb(Address(i), mesh_aabb)).some
             kept == SelectSeq(node_order, Kept)
         IN  IF \E k \in 1..8 : ChildState(children, node_order[k]) = 3 THEN Panic
             ELSE Ok([k \in 1..Len(kept) |-> Address(kept[Len(kept) + 1 - k])])

\* The hits of the triangles of a leaf from triangle k on.
RECURSIVE LeafHits(_, _, _, _, _)
LeafHits(triangles, k, mesh, r, acc) ==
    IF k > Len(triangles) THEN Ok(acc)
    ELSE Bind(get_triangle(mesh, triangles[k]),
              LAMBDA t :
                IF t.kind = "panic" \/ ~t.val.some THEN Panic
                ELSE Bind(ray_triangle_intersection(r, t.val.val, "Cull"),
                          LAMBDA hit :
                            IF hit.some /\ FLe(hit.distance, FInt(0))
                            THEN IF TriangleNormalsPanics(mesh, triangles[k]) THEN Panic
                                 ELSE LeafHits(triangles, k + 1, mesh, r,
                                               Append(acc, <<hit.distance, triangles[k]>>))
                            ELSE LeafHits(triangles, k + 1, mesh, r, acc)))

\* MeshOctree::leaf_raycast
leaf_raycast(octree, current_node_addr, mesh, r) ==
    IF current_node_addr \notin DOMAIN octree.leaves THEN Panic
    ELSE Bind(LeafHits(octree.leaves[current_node_addr], 1, mesh, r, << >>),
              LAMBDA found :
                IF found.kind = "panic" THEN Panic
                ELSE Bind(InsertAll(<< >>, found.val),
                          LAMBDA sorted :
                            IF sorted = << >> THEN Ok(NoHit)
                            ELSE Ok([some |-> TRUE, distance |-> sorted[1][1],
                                     triangle |-> sorted[1][2]])))

\* The while loop of cast_ray.
RECURSIVE CastLoop(_, _, _, _, _, _)
CastLoop(octree, op_stack, mesh, r, node_order, mesh_aabb) ==
    IF op_stack = << >> THEN Ok(NoHit)
    ELSE LET node_addr == op_stack[Len(op_stack)]
             rest == SubSeq(op_stack, 1, Len(op_stack) - 1)
         IN  IF is_leaf(node_addr)
             THEN Bind(leaf_raycast(octree, node_addr, mesh, r),
                       LAMBDA value :
                         IF value.kind = "panic" THEN Panic
                         ELSE IF value.val.some THEN value
                         ELSE CastLoop(octree, rest, mesh, r, node_order, mesh_aabb))
             ELSE Bind(expand_child_nodes(octree, node_addr, node_order, mesh_aabb, r),
                       LAMBDA pushed :
                         IF pushed.kind = "panic" THEN Panic
                         ELSE CastLoop(octree, rest \o pushed.val, mesh, r, node_order,
                                       mesh_aabb))

\* MeshOctree::cast_ray.  The order of the children comes from the ray in
\* mesh space; the boxes and the triangles are tested against `r` itself.
cast_ray(octree, r, mesh, mesh_aabb, mesh_transform) ==
    IF ~mesh.positions.some THEN Panic
    ELSE CastLoop(octree, <<new_root>>, mesh, r,
                  node_intersect_order(MeshSpaceRay(mesh_transform, r)), mesh_aabb)

-----------------------------------------------------------------------------
(* The octree path on bounded inputs: from_mesh, then cast_ray *)

\* MeshAccessor::generate_aabb: the box of the vertex positions.
generate_aabb(mesh) ==
    LET verts == mesh.positions.val
        Lo(k) == CHOOSE m \in {verts[i][k] : i \in 1..Len(verts)} :
                     \A i \in 1..Len(verts) : m <= verts[i][k]
        Hi(k) == CHOOSE m \in {verts[i][k] : i \in 1..Len(verts)} :
                     \A i \in 1..Len(verts) : m >= verts[i][k]
    IN  [center |-> [k \in 1..3 |-> Lo(k) + Hi(k)],
         half_extents |-> [k \in 1..3 |-> Hi(k) - Lo(k)],
         den |-> 2]

\* The triangles of the meshes of the octree: walls ahead of the ray from
\* the origin, one with its back to it, one behind it, one off its line and
\* one that ends just below it.
OctreeTriangles ==
    { Wall(5), Wall(2), Reversed(Wall(4)), Wall(-3), Shifted(Wall(1), <<0, 20, 0>>),
      Shifted(Wall(5), <<0, -5, 0>>) }

OctreeMeshes ==
    { MeshOfTriangles(tris, indexed) :
        tris \in UNION {[1..n -> OctreeTriangles] : n \in 1..MaxTris},
        indexed \in BOOLEAN }

\* The box the octree is built in: the box of the mesh, or a cube around
\* every mesh of the inputs.
OctreeAabbs(mesh) == {generate_aabb(mesh), Aabb(<<0, 0, 0>>, <<32, 32, 32>>)}

InitOctree ==
    /\ SceneOff
    /\ fn = "octree"
    /\ \E mesh \in OctreeMeshes : \E aabb \in OctreeAabbs(mesh) : \E r \in Rays :
          arg = [mesh |-> mesh, aabb |-> aabb, ray |-> r,
                 mesh_transform |-> Placed(<<0, 0, 0>>, 1, 1)]
    /\ ret = << >>

BuildOctree ==
    /\ fn = "octree"
    /\ ret = << >>
    /\ ret' = <<from_mesh(arg.mesh, arg.aabb)>>
    /\ UNCHANGED <<sceneVars, fn, arg>>

CastOctree ==
    /\ fn = "octree"
    /\ Len(ret) = 1
    /\ ret[1].kind = "ok"
    /\ ret' = Append(ret, cast_ray(ret[1].val, arg.ray, arg.mesh, arg.aabb,
                                   arg.mesh_transform))
    /\ UNCHANGED <<sceneVars, fn, arg>>

NextOctree == BuildOctree \/ CastOctree

SpecOctree == InitOctree /\ [][NextOctree]_vars

-----------------------------------------------------------------------------
(* Claims about the octree *)

\* The linear scan with back-face culling on the inputs of the octree path.
LinearScan ==
    ray_mesh_intersection(arg.mesh_transform, arg.mesh.positions.val, arg.mesh.normals,
                          arg.ray, arg.mesh.indices, "Cull")

\* C6, as claimed: the octree is built and cast, and what cast_ray reports
\* equals what the linear scan with back-face culling reports: both none, or
\* both a hit at the same distance.
C6_OctreeEqualsLinearScan ==
    (fn = "octree" /\ ret # << >>) =>
        /\ ret[1].kind = "ok"
        /\ Len(ret) = 2 =>
              /\ ret[2].kind = "ok"
              /\ LinearScan.kind = "ok"
              /\ ret[2].val.some <=> LinearScan.hit.some
              /\ ret[2].val.some => ret[2].val.distance = LinearScan.hit.distance

-----------------------------------------------------------------------------
(* lib.rs: ray_intersection_over_mesh on meshes of every topology *)

\* PrimitiveTopology.
Topologies == {"PointList", "LineList", "LineStrip", "TriangleList", "TriangleStrip"}

\* The meshes of one triangle, with and without an index buffer, declared
\* with each topology.
OverMeshes ==
    {[MeshOfTriangles(<<t>>, indexed) EXCEPT !.topology = topology] :
        t \in ScanTriangles, indexed \in BOOLEAN, topology \in Topologies}

InitOverMesh ==
    /\ SceneOff
    /\ fn = "ray_intersection_over_mesh"
    /\ arg \in [mesh : OverMeshes, mesh_to_world : ScanTransforms, ray : Rays,
                backface_culling : Policies]
    /\ ret = << >>

CallOverMesh ==
    /\ fn = "ray_intersection_over_mesh"
    /\ ret = << >>
    /\ ret' = <<ray_intersection_over_mesh(arg.mesh, arg.mesh_to_world, arg.ray,
                                           arg.backface_culling)>>
    /\ UNCHANGED <<sceneVars, fn, arg>>

NextOverMesh == CallOverMesh

SpecOverMesh == InitOverMesh /\ [][NextOverMesh]_vars

-----------------------------------------------------------------------------
(* Claims about ray_intersection_over_mesh *)

\* What the caller of ray_intersection_over_mesh holds when the call is
\* over: the Option<IntersectionData>, or nothing when the call panicked.
\* The error! line goes to the log, not to the caller.
CallerSees(result) == IF result.kind = "panic" THEN "panic" ELSE result.hit

\* The calls on triangle lists, with the ray and the transform of the state,
\* that end in a miss.
Misses ==
    {result \in {ray_intersection_over_mesh(m, arg.mesh_to_world, arg.ray,
                                            arg.backface_culling) :
                    m \in {x \in OverMeshes : x.topology = "TriangleList"}} :
        result.kind = "ok" /\ ~result.hit.some}

\* C11, as claimed: when the mesh is not a triangle list, what the caller
\* gets back differs from what it gets back for a triangle list that the
\* ray misses.
C11_TopologyErrorDistinct ==
    (fn = "ray_intersection_over_mesh" /\ ret # << >>
        /\ arg.mesh.topology # "TriangleList") =>
        \A miss \in Misses : CallerSees(ret[1]) # CallerSees(miss)

-----------------------------------------------------------------------------
(* octree/mesh_accessor.rs and octree/mod.rs: MeshAccessor::get_triangle *)

\* get_triangle of octree/mesh_accessor.rs.  With an index buffer the three
\* indices are read with get, after the length test, and verts is indexed
\* with []; without one verts is read with get.
mesh_accessor_get_triangle(mesh, index) ==
    LET verts == mesh.positions.val
    IN  IF mesh.indices.some
        THEN IF Len(mesh.indices.val) <= index * 3 + 2
             THEN Ok([some |-> FALSE])
             ELSE LET at == [i \in 1..3 |-> At(mesh.indices.val, index * 3 + i - 1)]
                  IN  IF \E i \in 1..3 : ~InRange(verts, at[i]) THEN Panic
                      ELSE Ok([some |-> TRUE, val |-> [i \in 1..3 |-> At(verts, at[i])]])
        ELSE IF \E i \in 1..3 : ~InRange(verts, index * 3 + i - 1)
             THEN Ok([some |-> FALSE])
             ELSE Ok([some |-> TRUE, val |-> [i \in 1..3 |-> At(verts, index * 3 + i - 1)]])

\* The two files that define MeshAccessor.
AccessorFiles == {"octree/mod.rs", "octree/mesh_accessor.rs"}

\* The largest TriangleIndex asked for.
MaxTriangleIndex == 3

\* Triangle lists of one triangle, and meshes whose buffers do not fit: an
\* index that names no vertex, an index buffer and a vertex buffer that end
\* inside a triangle.
AccessorMeshes ==
    {m \in OverMeshes : m.topology = "TriangleList"}
        \cup { TriangleListMesh(Wall(0) \o Wall(2), Some(<<3, 4, 5, 0, 1, 2>>)),
               TriangleListMesh(Wall(0), Some(<<0, 1, 3>>)),
               TriangleListMesh(Wall(0), Some(<<0, 1, 2, 0, 1>>)),
               TriangleListMesh(SubSeq(Wall(0) \o Wall(2), 1, 5), None) }

InitAccessor ==
    /\ SceneOff
    /\ fn = "get_triangle"
    /\ arg \in [mesh : AccessorMeshes, index : 0..MaxTriangleIndex, file : AccessorFiles]
    /\ ret = << >>

CallAccessor ==
    /\ fn = "get_triangle"
    /\ ret = << >>
    /\ ret' = <<IF arg.file = "octree/mod.rs"
                THEN get_triangle(arg.mesh, arg.index)
                ELSE mesh_accessor_get_triangle(arg.mesh, arg.index)>>
    /\ UNCHANGED <<sceneVars, fn, arg>>

NextAccessor == CallAccessor

SpecAccessor == InitAccessor /\ [][NextAccessor]_vars

-----------------------------------------------------------------------------
(* Claims about MeshAccessor::get_triangle *)

\* The vertex numbers of the triangle, when the index triplet lies inside
\* the index buffer (or the mesh has none).
TripletOf(mesh, index) ==
    IF mesh.indices.some
    THEN IF index * 3 + 2 < Len(mesh.indices.val)
         THEN {[i \in 1..3 |-> mesh.indices.val[index * 3 + i]]}
         ELSE {}
    ELSE {[i \in 1..3 |-> index * 3 + i - 1]}

\* The triangle exists: its triplet does, and each of its three vertex
\* numbers names a position.
TriangleExists(mesh, index) ==
    \E t \in TripletOf(mesh, index) :
        \A i \in 1..3 : t[i] >= 0 /\ t[i] < Len(mesh.positions.val)

\* C12, as claimed: get_triangle returns; it returns a triangle when the
\* triangle exists and None when the triplet, one of its index values or
\* one of its vertex positions is out of range.
C12_GetTriangleNeverPanics ==
    (fn = "get_triangle" /\ ret # << >>) =>
        /\ ret[1].kind = "ok"
        /\ ret[1].val.some <=> TriangleExists(arg.mesh, arg.index)

-----------------------------------------------------------------------------
(* primitives.rs and deferred.rs: the rays of the deferred API *)

\* A GlobalTransform of a source: a translation and a rotation that takes
\* the axes X, Y and -Z to the unit vectors right, up and forward.
Oriented(translation, right, up, forward) ==
    [translation |-> translation, right |-> right, up |-> up, forward |-> forward]

\* Ray3d::from_transform: from the translation towards the image of
\* (0, 0, -1).
from_transform(transform) ==
    LET pick_position == VAdd(transform.translation, transform.forward)
        source_origin == transform.translation
    IN  Ray3dNew(source_origin, VSub(pick_position, source_origin))

\* ray_from_transform of deferred.rs.
ray_from_transform(transform) == from_transform(transform)

\* Ray3d::from_screenspace for a camera with an orthographic projection of
\* half extents camera.half whose near plane passes through the camera and
\* whose far plane lies camera.far ahead.  The viewport and the target
\* size are in pixels; the quotients by the viewport size are exact on the
\* cameras of the model.
from_screenspace(cursor_pos_screen, camera, camera_transform) ==
    IF ~camera.viewport.some \/ ~camera.target_size.some THEN None
    ELSE LET viewport_min == camera.viewport.val.min
             viewport_max == camera.viewport.val.max
             screen_size == camera.target_size.val
             viewport_size == <<viewport_max[1] - viewport_min[1],
                                viewport_max[2] - viewport_min[2]>>
             adj_cursor_pos == <<cursor_pos_screen[1] - viewport_min[1],
                                 cursor_pos_screen[2] - (screen_size[2] - viewport_max[2])>>
             \* cursor_ndc * half, lane by lane
             x == ((2 * adj_cursor_pos[1] - viewport_size[1]) * camera.half[1])
                      \div viewport_size[1]
             y == ((2 * adj_cursor_pos[2] - viewport_size[2]) * camera.half[2])
                      \div viewport_size[2]
             near == VAdd(camera_transform.translation,
                          VAdd(VScale(camera_transform.right, x),
                               VScale(camera_transform.up, y)))
             far == VAdd(near, VScale(camera_transform.forward, camera.far))
         IN  Some(Ray3dNew(near, VSub(far, near)))

\* ray_from_screenspace of deferred.rs.
ray_from_screenspace(cursor_pos_screen, camera, camera_transform, win) ==
    from_screenspace(cursor_pos_screen, camera, camera_transform)

\* query_window: the window, the camera and the transform, when all three
\* are there.
query_window(win, camera, transform) ==
    IF ~win.primary THEN None         \* error!("No primary window found ...")
    ELSE IF ~camera.some THEN None    \* error!("... no associated Camera component")
    ELSE IF ~transform.some THEN None \* error!("... no associated GlobalTransform ...")
    ELSE Some([window |-> win, camera |-> camera.val, transform |-> transform.val])

\* What build_rays assigns to pick_source.ray.
BuiltRay(source, win) ==
    LET queried == query_window(win, source.camera, source.transform)
    IN  CASE source.cast_method.kind = "Cursor" ->
                IF ~queried.some THEN None
                ELSE IF ~win.cursor_position.some THEN None
                ELSE ray_from_screenspace(win.cursor_position.val, queried.val.camera,
                                          queried.val.transform, win)
          [] source.cast_method.kind = "Screenspace" ->
                IF ~queried.some THEN None
                ELSE ray_from_screenspace(source.cast_method.pos, queried.val.camera,
                                          queried.val.transform, win)
          [] source.cast_method.kind = "Transform" ->
                IF source.transform.some
                THEN Some(ray_from_transform(source.transform.val))
                ELSE None

build_rays(sources, win) ==
    [id \in DOMAIN sources |-> [sources[id] EXCEPT !.ray = BuiltRay(sources[id], win)]]

-----------------------------------------------------------------------------
(* deferred.rs: update_raycast and update_target_intersections *)

\* The orders in which the closures of the parallel culling can send.
Orders(set) ==
    {order \in [1..Cardinality(set) -> set] :
        \A i, j \in 1..Cardinality(set) : order[i] = order[j] => i = j}

RECURSIVE CullAll(_, _, _, _)
CullAll(r, visibility_setting, world, order) ==
    IF order = << >> THEN << >>
    ELSE CullMessage(r, visibility_setting, world, Head(order))
            \o CullAll(r, visibility_setting, world, Tail(order))

\* Raycast::cast_ray as one call, the closures of the culling having sent
\* in `order`: the list returned, or a panic.
Raycast_cast_ray(assets, world, r, s, order) ==
    Bind(sort_by_key(CullAll(r, s.visibility, world, order)),
         LAMBDA sorted :
            Bind(NarrowPhase(assets, world, r, s, NarrowStart, FilteredList(sorted, s)),
                 LAMBDA acc :
                    IF acc.panicked THEN Panic
                    ELSE Ok(collect_output(
                            sort_by_key(retain_hits(acc.hits, acc.nearest_blocking_hit))))))

\* The generic parameter of the plugin, and another marker type.
T == "T"

U == "U"

\* Query<&RaycastMesh<T>>::contains
targets_contains_AnyMarker(meshes, entity) ==
    entity \in DOMAIN meshes /\ meshes[entity].markers # {}

targets_contains(meshes, entity) ==
    entity \in DOMAIN meshes /\ T \in meshes[entity].markers

\* The settings update_raycast casts with: the filter lets the entities
\* with a RaycastMesh<T> through, the early exit test is the flag of the
\* source for every entity.
SourceSettings(source, meshes) ==
    [visibility |-> source.visibility,
     filter |-> {e \in DOMAIN meshes : targets_contains(meshes, e)},
     early_exit_test |-> IF source.should_early_exit THEN DOMAIN meshes ELSE {}]

\* The body of the loop of update_raycast for one source.
UpdateSource(source, world, meshes, order) ==
    IF ~source.ray.some THEN Ok(source)
    ELSE Bind(Raycast_cast_ray(MeshAssets, world, source.ray.val,
                               SourceSettings(source, meshes), order),
              LAMBDA cast :
                 IF cast.kind = "panic" THEN Panic
                 ELSE Ok([source EXCEPT !.intersections = cast.val]))

\* update_raycast: for every source, what the body of the loop can make of
\* it, one outcome for each order of its culling.
update_raycast(sources, world, meshes) ==
    Bind([source \in {sources[id] : id \in DOMAIN sources} |->
            {UpdateSource(source, world, meshes, order) :
                order \in Orders(culling_query(world))}],
         LAMBDA outcomes : [id \in DOMAIN sources |-> outcomes[sources[id]]])

\* An update_target_intersections that clears nothing.
ClearPreviouslyUpdated_Nothing(meshes, previously_updated) == meshes

\* for entity in previously_updated_raycast_meshes.drain(..): the
\* intersections of the RaycastMesh<T> of the entity, if it has one, are
\* cleared.
ClearPreviouslyUpdated(meshes, previously_updated) ==
    [e \in DOMAIN meshes |->
        IF (\E i \in 1..Len(previously_updated) : previously_updated[i] = e)
            /\ targets_contains(meshes, e)
        THEN [meshes[e] EXCEPT !.intersections = << >>]
        ELSE meshes[e]]

\* The pairs the two nested loops of update_target_intersections go
\* through: (source entity, (mesh entity, intersection)), the sources in
\* the order of the query and the intersections of a source in their order.
RECURSIVE SourceIntersections(_, _)
SourceIntersections(sources, id) ==
    IF id > Len(sources) THEN << >>
    ELSE [i \in 1..Len(sources[id].intersections) |-> <<id, sources[id].intersections[i]>>]
            \o SourceIntersections(sources, id + 1)

\* The second loop: each pair is pushed to the RaycastMesh<T> of its mesh
\* entity, if it has one, and the mesh entity is remembered.
RECURSIVE PushIntersections(_, _, _)
PushIntersections(meshes, previously_updated, pairs) ==
    IF pairs = << >>
    THEN [meshes |-> meshes, previously_updated |-> previously_updated]
    ELSE LET source_entity == Head(pairs)[1]
             mesh_entity == Head(pairs)[2][1]
             intersection == Head(pairs)[2][2]
         IN  IF targets_contains(meshes, mesh_entity)
             THEN PushIntersections(
                     [meshes EXCEPT ![mesh_entity].intersections =
                         Append(@, <<source_entity, intersection>>)],
                     Append(previously_updated, mesh_entity),
                     Tail(pairs))
             ELSE PushIntersections(meshes, previously_updated, Tail(pairs))

update_target_intersections(sources, meshes, previously_updated) ==
    PushIntersections(ClearPreviouslyUpdated(meshes, previously_updated), << >>,
                      SourceIntersections(sources, 1))

-----------------------------------------------------------------------------
(* The deferred plugin as a state machine: one tick is build_rays, then
   update_raycast, then update_target_intersections *)

\* The number of sources.
MaxSources == 2

Sources == 1..MaxSources

\* A camera at the origin that looks along +X: a viewport of two by two
\* pixels that shows forty by forty world units.
CameraTransform == Oriented(<<0, 0, 0>>, <<0, -1, 0>>, <<0, 0, 1>>, <<1, 0, 0>>)

ViewportCamera ==
    [viewport |-> Some([min |-> <<0, 0>>, max |-> <<2, 2>>]),
     target_size |-> Some(<<2, 2>>), half |-> <<20, 20>>, far |-> 1000]

\* A source at (10, 0, 0) that points along -X.
PointerTransform == Oriented(<<10, 0, 0>>, <<0, 1, 0>>, <<0, 0, 1>>, <<-1, 0, 0>>)

\* RaycastSource<T> with the Camera and the GlobalTransform of its entity.
\* ray and intersections start as Default makes them.
Source(cast_method, should_early_exit, camera, transform) ==
    [cast_method |-> cast_method, should_early_exit |-> should_early_exit,
     visibility |-> "MustBeVisibleAndInView", ray |-> None, intersections |-> << >>,
     camera |-> camera, transform |-> transform]

Cursor == [kind |-> "Cursor"]

Screenspace(pos) == [kind |-> "Screenspace", pos |-> pos]

Transform == [kind |-> "Transform"]

SourceKinds ==
    << Source(Cursor, TRUE, Some(ViewportCamera), Some(CameraTransform)),
       Source(Cursor, TRUE, None, Some(CameraTransform)),
       Source(Screenspace(<<1, 1>>), TRUE, Some(ViewportCamera), None),
       Source(Transform, FALSE, None, Some(PointerTransform)) >>

\* The primary window: none, one the cursor is outside of, one with the
\* cursor at its centre, one with the cursor at the middle of its edge.
Windows ==
    { [primary |-> FALSE, cursor_position |-> None],
      [primary |-> TRUE, cursor_position |-> None],
      [primary |-> TRUE, cursor_position |-> Some(<<1, 1>>)],
      [primary |-> TRUE, cursor_position |-> Some(<<2, 1>>)] }

\* A mesh entity and the markers of its RaycastMesh components.
Target(bundle, markers) == [bundle |-> bundle, markers |-> markers]

\* The meshes of the deferred scenes.  With RaycastMesh<T>: on the axis of
\* the camera at 4 and at 8, the second without back-face culling, and on
\* the ray through the edge of the viewport.  With RaycastMesh<U> only: on
\* the axis of the camera at 2, nearer than the others.
TargetKinds ==
    << Target(Bundle("wall", Placed(<<4, 0, 0>>, 1, 1), Some(WallAabb), TRUE, TRUE, FALSE),
             {T}),
      Target(Bundle("wall", Placed(<<8, 0, 0>>, 1, 1), Some(WallAabb), TRUE, TRUE, TRUE),
             {T}),
      Target(Bundle("wall", Placed(<<4, -20, 0>>, 1, 1), Some(WallAabb), TRUE, TRUE, FALSE),
             {T, U}),
      Target(Bundle("wall", Placed(<<2, 0, 0>>, 1, 1), Some(WallAabb), TRUE, TRUE, TRUE),
             {U}) >>

\* The ways to give each of the entities ids one of n kinds, one way for
\* each choice of how many entities every kind has.
Lineups(ids, n) ==
    {f \in [ids -> 1..n] : \A i, j \in ids : i <= j => f[i] <= f[j]}

InitDeferred ==
    /\ \E targets \in Lineups(Entities, Len(TargetKinds)) :
          /\ entities = [e \in Entities |-> TargetKinds[targets[e]].bundle]
          /\ target_meshes = [e \in Entities |->
                                 [markers |-> TargetKinds[targets[e]].markers,
                                  intersections |-> << >>, before |-> FALSE]]
    /\ ray = Ray3dNew(<<0, 0, 0>>, <<1, 0, 0>>)
    /\ settings = [visibility |-> "Ignore", filter |-> {}, early_exit_test |-> {}]
    /\ pc = "off"
    /\ todo = {}
    /\ channel = << >>
    /\ culled_list = << >>
    /\ hits = << >>
    /\ output = << >>
    /\ prev_output = None
    /\ FnIdle
    /\ stage = "build_rays"
    /\ \E sources \in Lineups(Sources, Len(SourceKinds)) :
          pick_sources = [id \in Sources |-> SourceKinds[sources[id]]]
    /\ previously_updated_raycast_meshes = << >>

\* The system build_rays, with the primary window as the frame finds it.
BuildRays(win) ==
    /\ stage = "build_rays"
    /\ pick_sources' = build_rays(pick_sources, win)
    /\ stage' = "update_raycast"
    /\ UNCHANGED <<entities, ray, settings, pc, todo, channel, culled_list, hits,
                   output, prev_output, fnVars, target_meshes,
                   previously_updated_raycast_meshes>>

\* The system update_raycast: one of the outcomes for each source.  A cast
\* that panics ends the app.
UpdateRaycast ==
    /\ stage = "update_raycast"
    /\ \E outcomes \in {update_raycast(pick_sources, entities, target_meshes)} :
       \E updated \in {u \in [Sources -> UNION {outcomes[id] : id \in Sources}] :
                           \A id \in Sources : u[id] \in outcomes[id]} :
          IF \E id \in Sources : updated[id].kind = "panic"
          THEN /\ stage' = "panicked"
               /\ pick_sources' = pick_sources
          ELSE /\ stage' = "update_target_intersections"
               /\ pick_sources' = [id \in Sources |-> updated[id].val]
    /\ UNCHANGED <<entities, ray, settings, pc, todo, channel, culled_list, hits,
                   output, prev_output, fnVars, target_meshes,
                   previously_updated_raycast_meshes>>

\* The system update_target_intersections.
UpdateTargetIntersections ==
    /\ stage = "update_target_intersections"
    /\ \E updated \in {update_target_intersections(pick_sources, target_meshes,
                                                    previously_updated_raycast_meshes)} :
          /\ target_meshes' =
                [e \in DOMAIN target_meshes |->
                    [updated.meshes[e] EXCEPT
                        !.before = target_meshes[e].intersections # << >>]]
          /\ previously_updated_raycast_meshes' = updated.previously_updated
    /\ stage' = "build_rays"
    /\ UNCHANGED <<entities, ray, settings, pc, todo, channel, culled_list, hits,
                   output, prev_output, fnVars, pick_sources>>

NextDeferred ==
    \/ \E win \in Windows : BuildRays(win)
    \/ UpdateRaycast
    \/ UpdateTargetIntersections

SpecDeferred == InitDeferred /\ [][NextDeferred]_vars

-----------------------------------------------------------------------------
(* Claims about the deferred API *)

\* The entities of the intersections of a source.
IntersectedBy(source) ==
    {source.intersections[i][1] : i \in 1..Len(source.intersections)}

\* C13: every entity in the intersections of a RaycastSource<T> carries a
\* RaycastMesh<T>; an entity that carries only a RaycastMesh<U> is in none.
C13_SameMarkerOnly ==
    stage # "off" =>
        \A id \in DOMAIN pick_sources :
            \A e \in IntersectedBy(pick_sources[id]) : T \in target_meshes[e].markers

\* C13's case: a ray of a source passes through a mesh with RaycastMesh<U>
\* only and through one with RaycastMesh<T>, the cast is over, and the
\* source lists the second.
C13_Witness ==
    /\ stage = "update_target_intersections"
    /\ \E id \in DOMAIN pick_sources :
          /\ pick_sources[id].ray.some
          /\ \E e \in Entities :
                /\ target_meshes[e].markers = {U}
                /\ PierceDistances(entities[e], pick_sources[id].ray.val) # {}
          /\ \E e \in IntersectedBy(pick_sources[id]) : target_meshes[e].markers = {T}

\* The pairs (source, hit) of the sources from `id` on whose intersections
\* hold the entity, in the order of the sources.
RECURSIVE PairsOf(_, _)
PairsOf(e, id) ==
    IF id > MaxSources THEN << >>
    ELSE LET OnEntity(entry) == entry[1] = e
             mine == SelectSeq(pick_sources[id].intersections, OnEntity)
         IN  [i \in 1..Len(mine) |-> <<id, mine[i][2]>>] \o PairsOf(e, id + 1)

\* C14: when update_target_intersections has run, the intersections of
\* each RaycastMesh<T> are the pairs (source, hit) of the sources whose
\* intersections hold that mesh, and nothing else: entries of an earlier
\* tick are gone and a mesh no source hit has none.
C14_TargetsMirrorSources ==
    stage = "build_rays" =>
        \A e \in DOMAIN target_meshes :
            T \in target_meshes[e].markers =>
                target_meshes[e].intersections = PairsOf(e, 1)

\* C14's case: update_target_intersections has run; one mesh had entries
\* before the run and no source holds it now, another is held by two
\* sources.
C14_Witness ==
    /\ stage = "build_rays"
    /\ \E e \in DOMAIN target_meshes :
          /\ target_meshes[e].before
          /\ target_meshes[e].intersections = << >>
          /\ \A id \in DOMAIN pick_sources : e \notin IntersectedBy(pick_sources[id])
    /\ \E e \in DOMAIN target_meshes : Len(target_meshes[e].intersections) = 2

\* C15, as claimed: when a tick is over and build_rays could not build the
\* ray of a source in it, the intersections of the source are empty,
\* whatever they held before.
C15_NoRayNoIntersections ==
    stage = "build_rays" =>
        \A id \in DOMAIN pick_sources :
            ~pick_sources[id].ray.some => pick_sources[id].intersections = << >>

-----------------------------------------------------------------------------
(* The functions that report the distance of a hit: ray_mesh_intersection,
   MeshOctree::cast_ray and, called on a leaf that from_mesh stored,
   MeshOctree::leaf_raycast *)

\* leaf_raycast on one of the leaves of the octree that was built.
LeafRaycast ==
    /\ fn = "octree"
    /\ Len(ret) = 1
    /\ ret[1].kind = "ok"
    /\ \E current_node_addr \in DOMAIN ret[1].val.leaves :
          /\ ret' = <<leaf_raycast(ret[1].val, current_node_addr, arg.mesh, arg.ray)>>
          /\ arg' = [mesh |-> arg.mesh, ray |-> arg.ray, octree |-> ret[1].val,
                     current_node_addr |-> current_node_addr]
    /\ fn' = "leaf_raycast"
    /\ UNCHANGED sceneVars

InitDistance == InitMesh \/ InitOctree

NextDistance == CallMesh \/ BuildOctree \/ CastOctree \/ LeafRaycast

SpecDistance == InitDistance /\ [][NextDistance]_vars

-----------------------------------------------------------------------------
(* Claims about the distance of a hit *)

\* A distance that is a number and not negative.
NotBehind(distance) == distance.d > 0 /\ distance.n >= 0

-----------------------------------------------------------------------------
(* Claims about the scratch buffers of Raycast *)

\* The entities of a set in ascending order.
RECURSIVE Ascending(_)
Ascending(set) ==
    IF set = {} THEN << >>
    ELSE LET least == CHOOSE x \in set : \A y \in set : x <= y
         IN  <<least>> \o Ascending(set \ {least})

\* The order in which the closures of the culling of this call sent, the
\* entities that sent nothing at the end.
SentOrder ==
    [i \in 1..Len(channel) |-> channel[i][2]]
        \o Ascending(culling_query(entities) \ {channel[i][2] : i \in 1..Len(channel)})

\* What Raycast::cast_ray returns on a Raycast whose buffers were never
\* used, for the world, the ray and the settings of the state and the
\* culling sending in the same order.
FreshCall == Raycast_cast_ray(MeshAssets, entities, ray, settings, SentOrder)

\* C17: whatever calls went before, the list a call of cast_ray returns is
\* the list the same call returns on fresh buffers.
C17_StatelessAcrossCalls ==
    pc = "done" => (FreshCall.kind = "ok" /\ output = FreshCall.val)

\* C17's case: a call returned hits, the buffers held them when the next
\* call was entered, and that call has returned too.
C17_Witness ==
    /\ pc = "done"
    /\ prev_output.some
    /\ prev_output.val # << >>
    /\ output # << >>

-----------------------------------------------------------------------------
(* Claims about SimplifiedMesh *)

\* The distances at which the ray pierces the mesh of the entity's
\* Handle<Mesh>, whatever its SimplifiedMesh.
RealMeshDistances(c, r) == PierceDistances([c EXCEPT !.simplified_mesh = None], r)

\* The distances at which the ray pierces the mesh of the entity's
\* SimplifiedMesh.
SimplifiedMeshDistances(c, r) ==
    PierceDistances([c EXCEPT !.mesh = c.simplified_mesh.val, !.simplified_mesh = None], r)

\* C19: the hit reported for an entity with a SimplifiedMesh is a hit of
\* the ray on the simplified mesh, and the hit reported for an entity
\* without one is a hit on its real mesh.
C19_SimplifiedMeshOnly ==
    pc = "done" =>
        \A i \in 1..Len(output) :
            LET c == entities[output[i][1]]
            IN  IF c.simplified_mesh.some
                THEN OutputDistance(i) \in SimplifiedMeshDistances(c, ray)
                ELSE OutputDistance(i) \in RealMeshDistances(c, ray)

\* C19's case: the output holds an entity whose simplified mesh is hit and
\* whose real mesh is not, and the scene holds an entity whose real mesh is
\* hit and whose simplified mesh is not, which the filter and the culling
\* let through.
C19_Witness ==
    /\ pc = "done"
    /\ \E i \in 1..Len(output) :
          /\ entities[output[i][1]].simplified_mesh.some
          /\ RealMeshDistances(entities[output[i][1]], ray) = {}
    /\ \E e \in Entities \ OutputEntities :
          /\ entities[e].simplified_mesh.some
          /\ RealMeshDistances(entities[e], ray) # {}
          /\ e \in settings.filter
          /\ e \in CulledEntities
          /\ settings.early_exit_test = {}

-----------------------------------------------------------------------------
(* Claims about the early exit bound *)

\* The distance of the hit of an eligible entity: the nearest point at
\* which the ray pierces its mesh.
HitDistance(e) == MinDistance(PierceDistances(entities[e], ray))

\* The eligible entities for which early_exit_test is true.
Blocking == EligibleHits \cap settings.early_exit_test

\* distance <= B, where B is the smallest hit distance among the blocking
\* entities, and +inf when there is none.
WithinBound(distance) == \A b \in Blocking : RatLe(distance, HitDistance(b))

\* C20, as claimed: for any early_exit_test the list holds exactly the
\* hits of the eligible entities whose distance is at most B, each once
\* and at its distance; no such hit is lost to the skip by Aabb entry
\* distance.
C20_ExactlyWithinBound ==
    pc = "done" =>
        /\ OutputEntities = {e \in EligibleHits : WithinBound(HitDistance(e))}
        /\ Len(output) = Cardinality(OutputEntities)
        /\ \A i \in 1..Len(output) : OutputDistance(i) = HitDistance(output[i][1])

-----------------------------------------------------------------------------
(* octree/plugin.rs: update_octrees.  The world of the system is held in
   arg: the mesh assets, the Handle<Mesh> of each entity, the entities whose
   Handle<Mesh> was added or changed since the system last ran, and the
   MeshOctree of each entity.  ret holds the entities of the last run, and
   nothing once the world has changed again. *)

\* MeshOctree::build: the octree of the mesh in the box of the mesh.
build(mesh) == from_mesh(mesh, generate_aabb(mesh))

\* The handles of the mesh assets.
Handles == {"a", "b"}

\* The versions of a mesh asset: one triangle, and two.  The octrees of the
\* two differ.
MeshVersions ==
    {MeshOfTriangles(<<Wall(5)>>, TRUE), MeshOfTriangles(<<Wall(5), Wall(2)>>, TRUE)}

\* The entities the query yields and that the two filter_map let through:
\* Handle<Mesh> added or changed, mesh loaded, octree built.
OctreeUpdates(world) ==
    {e \in world.changed :
        /\ world.meshes[world.mesh_handles[e]].some
        /\ build(world.meshes[world.mesh_handles[e]].val).kind = "ok"}

update_octrees(world) ==
    [world EXCEPT
        !.octrees = [e \in DOMAIN world.octrees |->
                        IF e \in OctreeUpdates(world)
                        THEN Some(build(world.meshes[world.mesh_handles[e]].val).val)
                        ELSE world.octrees[e]],
        !.changed = {}]

InitPlugin ==
    /\ SceneOff
    /\ fn = "update_octrees"
    /\ \E mesh_handles \in [Entities -> Handles], mesh \in MeshVersions :
          arg = [meshes |-> [h \in Handles |-> IF h = "a" THEN Some(mesh) ELSE None],
                 mesh_handles |-> mesh_handles,
                 changed |-> Entities,
                 octrees |-> [e \in Entities |-> None]]
    /\ ret = << >>

\* The system runs.
UpdateOctrees ==
    /\ fn = "update_octrees"
    /\ \E updates \in {OctreeUpdates(arg)} :
       \E world \in {update_octrees(arg)} :
          /\ arg' = world
          /\ ret' = <<updates>>
    /\ UNCHANGED <<sceneVars, fn>>

\* Assets<Mesh>: the asset of a handle is loaded, or its positions are
\* changed in place.  No Handle<Mesh> component is touched.
SetMesh(h, mesh) ==
    /\ fn = "update_octrees"
    /\ arg.meshes[h] # Some(mesh)
    /\ arg' = [arg EXCEPT !.meshes[h] = Some(mesh)]
    /\ ret' = << >>
    /\ UNCHANGED <<sceneVars, fn>>

\* An entity is given another Handle<Mesh>.
SetHandle(e, h) ==
    /\ fn = "update_octrees"
    /\ arg.mesh_handles[e] # h
    /\ arg' = [arg EXCEPT !.mesh_handles[e] = h, !.changed = @ \cup {e}]
    /\ ret' = << >>
    /\ UNCHANGED <<sceneVars, fn>>

NextPlugin ==
    \/ UpdateOctrees
    \/ \E h \in Handles, mesh \in MeshVersions : SetMesh(h, mesh)
    \/ \E e \in Entities, h \in Handles : SetHandle(e, h)

SpecPlugin == InitPlugin /\ [][NextPlugin]_vars

-----------------------------------------------------------------------------
(* Claims about update_octrees *)

\* The octree of the entity is the octree of the mesh its handle names
\* now, when that mesh is loaded.
OctreeIsCurrent(e) ==
    arg.meshes[arg.mesh_handles[e]].some =>
        arg.octrees[e].val = build(arg.meshes[arg.mesh_handles[e]].val).val

\* C18, as claimed: when update_octrees has run, no entity carries an
\* octree built from an earlier version of its mesh: whatever changed in
\* the positions or the topology of a mesh asset, the octree of every
\* entity that uses the mesh was rebuilt.
C18_OctreesRebuilt ==
    (fn = "update_octrees" /\ ret # << >>) =>
        \A e \in DOMAIN arg.octrees : arg.octrees[e].some => OctreeIsCurrent(e)

-----------------------------------------------------------------------------
(* Claims about the child mask and the tables of the octree *)

\* The state from_mesh determined for child i of the node at addr, read off
\* what evaluate_child_node did with the address of the child: it put it in
\* the leaves, or on the stack, from where it came into the nodes, or
\* neither.
BuilderState(octree, addr, i) ==
    IF push_bits(addr, i, FALSE) \in DOMAIN octree.leaves THEN LEAF
    ELSE IF push_bits(addr, i, FALSE) \in DOMAIN octree.nodes THEN NODE
    ELSE EMPTY

\* C21, as claimed: in every node from_mesh stored, the slot the traversal
\* reads for child i, bits 2i and 2i+1 of the mask, holds the state the
\* builder determined for child i.
C21_SlotHoldsStateOfChild ==
    (fn = "octree" /\ ret # << >> /\ ret[1].kind = "ok") =>
        \A addr \in DOMAIN ret[1].val.nodes :
            \A i \in 0..(N_CHILD_NODES - 1) :
                ChildState(ret[1].val.nodes[addr], i) = BuilderState(ret[1].val, addr, i)

-----------------------------------------------------------------------------
(* octree/mod.rs: MeshOctree::cast_ray, one turn of its loop at a time.  The
   octree is the one from_mesh built; ret[2] holds the locals of the call:
   the stack, the addresses popped so far, what each expansion pushed, and
   the value the call returned or its panic. *)

\* cast_ray is entered: the root address is pushed.
BeginCast ==
    /\ fn = "octree"
    /\ Len(ret) = 1
    /\ ret[1].kind = "ok"
    /\ fn' = "cast_ray"
    /\ ret' = Append(ret, [op_stack |-> <<new_root>>, popped |-> << >>,
                           expanded |-> << >>, returned |-> None])
    /\ UNCHANGED <<sceneVars, arg>>

\* One turn of `while let Some(node_addr) = op_stack.pop()` with an address
\* on the stack.
PopAddress ==
    /\ fn = "cast_ray"
    /\ ~ret[2].returned.some
    /\ ret[2].op_stack # << >>
    /\ \E node_addr \in {ret[2].op_stack[Len(ret[2].op_stack)]} :
       \E rest \in {SubSeq(ret[2].op_stack, 1, Len(ret[2].op_stack) - 1)} :
       \E popped \in {Append(ret[2].popped, node_addr)} :
          IF is_leaf(node_addr)
          THEN \E value \in {leaf_raycast(ret[1].val, node_addr, arg.mesh, arg.ray)} :
                  ret' = [ret EXCEPT ![2] =
                            IF value.kind = "panic" \/ value.val.some
                            THEN [@ EXCEPT !.op_stack = rest, !.popped = popped,
                                           !.returned = Some(value)]
                            ELSE [@ EXCEPT !.op_stack = rest, !.popped = popped]]
          ELSE \E pushed \in {expand_child_nodes(
                                  ret[1].val, node_addr,
                                  node_intersect_order(
                                      MeshSpaceRay(arg.mesh_transform, arg.ray)),
                                  arg.aabb, arg.ray)} :
                  ret' = [ret EXCEPT ![2] =
                            IF pushed.kind = "panic"
                            THEN [@ EXCEPT !.op_stack = rest, !.popped = popped,
                                           !.returned = Some(Panic)]
                            ELSE [@ EXCEPT !.op_stack = rest \o pushed.val,
                                           !.popped = popped,
                                           !.expanded =
                                               Append(@, [node |-> node_addr,
                                                          below |-> rest,
                                                          pushed |-> pushed.val])]]
    /\ UNCHANGED <<sceneVars, fn, arg>>

\* The stack is empty: the loop ends and cast_ray returns None.
ReturnNone ==
    /\ fn = "cast_ray"
    /\ ~ret[2].returned.some
    /\ ret[2].op_stack = << >>
    /\ ret' = [ret EXCEPT ![2].returned = Some(Ok(NoHit))]
    /\ UNCHANGED <<sceneVars, fn, arg>>

NextCast == BuildOctree \/ BeginCast \/ PopAddress \/ ReturnNone

SpecCast == InitOctree /\ [][NextCast]_vars

\* The address is a key of the table cast_ray looks it up in.
Resolves(octree, address) ==
    IF is_leaf(address) THEN address \in DOMAIN octree.leaves
    ELSE address \in DOMAIN octree.nodes

\* C22, as claimed: every address cast_ray pops from the stack resolves, an
\* address with the leaf bit in the leaves and one without it in the nodes.
C22_PoppedAddressesResolve ==
    fn = "cast_ray" =>
        \A k \in 1..Len(ret[2].popped) : Resolves(ret[1].val, ret[2].popped[k])

-----------------------------------------------------------------------------
(* octree/node.rs: addresses made by pushing child triplets from the root.
   arg holds the triplets pushed and the leaf flag of the last push, ret the
   address they made and the box compute_aabb gives for it. *)

\* The children pushed: every child in the first two pushes, the first and
\* the last child from then on.
PushedBits(path) == IF Len(path) < 2 THEN 0..(N_CHILD_NODES - 1) ELSE {0, 7}

InitAddr ==
    /\ SceneOff
    /\ fn = "push_bits"
    /\ arg = [path |-> << >>, leaf |-> FALSE,
              mesh_aabb |-> Aabb(<<0, 0, 0>>, <<32, 32, 32>>)]
    /\ ret = <<new_root, compute_aabb(new_root, arg.mesh_aabb)>>

\* One push more than the depth the address has room for.
PushBits(bits, leaf) ==
    /\ fn = "push_bits"
    /\ Len(arg.path) <= MAX_NODE_DEPTH
    /\ arg' = [arg EXCEPT !.path = Append(@, bits), !.leaf = leaf]
    /\ \E address \in {push_bits(ret[1], bits, leaf)} :
          ret' = <<address, compute_aabb(address, arg.mesh_aabb)>>
    /\ UNCHANGED <<sceneVars, fn>>

NextAddr == \E bits \in PushedBits(arg.path) : \E leaf \in BOOLEAN : PushBits(bits, leaf)

SpecAddr == InitAddr /\ [][NextAddr]_vars

\* The triplets an address spells between its header bit and its last bit.
PathOf(address) ==
    [k \in 1..((Len(address) - 2) \div 3) |->
        4 * address[3 * k - 1] + 2 * address[3 * k] + address[3 * k + 1]]

\* C23: for at most ten triplets pushed from the root, depth is the number
\* of triplets, is_leaf is the leaf flag of the last push, and the address
\* spells the triplets, so that no other sequence makes the same address.
C23_AddressDescribesNode ==
    (fn = "push_bits" /\ Len(arg.path) <= MAX_NODE_DEPTH) =>
        /\ depth(ret[1]) = Len(arg.path)
        /\ arg.path # << >> => (is_leaf(ret[1]) <=> arg.leaf)
        /\ Len(ret[1]) = 3 * Len(arg.path) + 2
        /\ PathOf(ret[1]) = arg.path

\* C23's case: ten triplets are pushed, not all the same, the last as a leaf.
C23_Witness ==
    /\ fn = "push_bits"
    /\ Len(arg.path) = MAX_NODE_DEPTH
    /\ arg.leaf
    /\ arg.path[1] = 5
    /\ arg.path[MAX_NODE_DEPTH] = 7
    /\ arg.path[MAX_NODE_DEPTH - 1] = 0

\* Child `bits` of a cell: the half extents halved, the center moved by the
\* new half extent along each axis, up when the bit of the axis is 1.
ChildCell(cell, bits) ==
    [center |-> [i \in 1..3 |->
                    2 * cell.center[i]
                    + cell.half_extents[i]
                      * (IF (bits \div (2 ^ (3 - i))) % 2 = 1 THEN 1 ELSE -1)],
     half_extents |-> cell.half_extents,
     den |-> 2 * cell.den]

\* The cell of a path: child a1 of the box of the mesh, child a2 of that
\* cell, and so on.
RECURSIVE CellOf(_, _)
CellOf(path, mesh_aabb) ==
    IF path = << >> THEN mesh_aabb
    ELSE ChildCell(CellOf(SubSeq(path, 1, Len(path) - 1), mesh_aabb), path[Len(path)])

\* C24, as claimed: compute_aabb returns the cell of the path of the
\* address.
C24_ComputeAabbIsCellOfPath ==
    (fn = "push_bits" /\ Len(arg.path) <= MAX_NODE_DEPTH) =>
        ret[2] = CellOf(arg.path, arg.mesh_aabb)

-----------------------------------------------------------------------------
(* octree/mesh_accessor.rs and octree/mod.rs: MeshAccessor::iter_triangles *)

\* iter_triangles of octree/mesh_accessor.rs from index i on: one index per
\* vertex, as long as its get_triangle yields a triangle.
RECURSIVE MeshAccessorIterTriangles(_, _, _)
MeshAccessorIterTriangles(mesh, i, acc) ==
    IF i >= Len(mesh.positions.val) THEN Ok(acc)
    ELSE Bind(mesh_accessor_get_triangle(mesh, i),
              LAMBDA t :
                IF t.kind = "panic" THEN Panic
                ELSE IF ~t.val.some THEN Ok(acc)
                ELSE MeshAccessorIterTriangles(mesh, i + 1, Append(acc, i)))

mesh_accessor_iter_triangles(mesh) == MeshAccessorIterTriangles(mesh, 0, << >>)

\* The meshes of get_triangle and of the linear scan, and one of three
\* vertices and four triangles, two of them seen from the back.
IterMeshes ==
    AccessorMeshes \cup ScanMeshes
        \cup {TriangleListMesh(Wall(0), Some(<<0, 1, 2, 2, 1, 0, 0, 1, 2, 2, 1, 0>>))}

InitIter ==
    /\ SceneOff
    /\ fn = "iter_triangles"
    /\ arg \in [mesh : IterMeshes, file : AccessorFiles]
    /\ ret = << >>

\* mesh.iter_triangles().collect::<Vec<_>>()
CallIter ==
    /\ fn = "iter_triangles"
    /\ ret = << >>
    /\ ret' = <<IF arg.file = "octree/mod.rs"
                THEN iter_triangles(arg.mesh)
                ELSE mesh_accessor_iter_triangles(arg.mesh)>>
    /\ UNCHANGED <<sceneVars, fn, arg>>

NextIter == CallIter

SpecIter == InitIter /\ [][NextIter]_vars

\* The number of triangles of a mesh: a third of the number of indices, or
\* of vertices when the mesh has no indices.
TriangleCount(mesh) ==
    (IF mesh.indices.some THEN Len(mesh.indices.val) ELSE Len(mesh.positions.val)) \div 3

\* C25, as claimed: iter_triangles yields the triangle indices 0, 1, ...,
\* n/3 - 1, each once.
C25_EveryTriangleOnce ==
    (fn = "iter_triangles" /\ ret # << >>) =>
        /\ ret[1].kind = "ok"
        /\ ret[1].val = [k \in 1..TriangleCount(arg.mesh) |-> k - 1]

-----------------------------------------------------------------------------
(* lib.rs: the linear scan of meshes that have Mesh::ATTRIBUTE_NORMAL *)

\* The mesh with a normal for every vertex, each unlike the others.
WithNormals(mesh) ==
    [mesh EXCEPT !.normals = Some([k \in 1..Len(mesh.positions.val) |-> <<k, 1, 0>>])]

InitNormals ==
    /\ SceneOff
    /\ fn = "ray_mesh_intersection"
    /\ \E mesh \in ScanMeshes :
          arg \in [mesh : {WithNormals(mesh)}, mesh_to_world : ScanTransforms,
                   ray : Rays, backface_culling : Policies]
    /\ ret = << >>

SpecNormals == InitNormals /\ [][NextMesh]_vars

\* C26, as claimed: on a mesh without indices that has normals, the normals
\* of a hit on triangle i are those of the vertices 3i, 3i+1 and 3i+2.
C26_NormalsOfTheHitTriangle ==
    (/\ fn = "ray_mesh_intersection"
     /\ ret # << >>
     /\ ~arg.mesh.indices.some
     /\ arg.mesh.normals.some
     /\ ret[1].kind = "ok"
     /\ ret[1].hit.some) =>
        /\ ret[1].hit.normals.some
        /\ ret[1].hit.normals.val =
              [i \in 1..3 |-> At(arg.mesh.normals.val, 3 * ret[1].hit.triangle + i - 1)]

-----------------------------------------------------------------------------
(* Claims about the order of the traversal *)

\* The order of the children for the ray of the call.
NodeOrder == node_intersect_order(MeshSpaceRay(arg.mesh_transform, arg.ray))

\* The projection of the corner of child i of the unit cube on the ray
\* direction.
Projection(i, r) == Dot(<<(i \div 4) % 2, (i \div 2) % 2, i % 2>>, r.direction)

\* The order is a permutation of 0..7, ascending by projection, ties in
\* ascending child index.
SortedByProjection(order, r) ==
    /\ Len(order) = N_CHILD_NODES
    /\ {order[k] : k \in 1..Len(order)} = 0..(N_CHILD_NODES - 1)
    /\ \A k \in 1..(Len(order) - 1) :
          \/ Projection(order[k], r) < Projection(order[k + 1], r)
          \/ /\ Projection(order[k], r) = Projection(order[k + 1], r)
             /\ order[k] < order[k + 1]

\* The address cast_ray is to pop for child i of a node: a leaf address when
\* the builder made the child a leaf.
ChildAddress(octree, node, i) == push_bits(node, i, BuilderState(octree, node, i) = LEAF)

\* The children of a node that are not empty and whose box the ray meets,
\* in the order of the children, as addresses.
NearToFar(octree, node) ==
    LET Kept(i) ==
            /\ BuilderState(octree, node, i) # EMPTY
            /\ intersects_local_aabb(
                   arg.ray, compute_aabb(ChildAddress(octree, node, i), arg.aabb)).some
        kept == SelectSeq(NodeOrder, Kept)
    IN  [k \in 1..Len(kept) |-> ChildAddress(octree, node, kept[k])]

\* The turns of the loop in which the address was popped.
PoppedAt(address) == {k \in 1..Len(ret[2].popped) : ret[2].popped[k] = address}

\* C27, as claimed: the order of the children is sorted by projection; and
\* when cast_ray has gone through the stack and returned None, the children
\* of every node it expanded that are not empty and whose box the ray meets
\* were popped, nearest first, and before every address that was on the
\* stack when the node was expanded.
C27_NearestChildPoppedFirst ==
    (fn = "cast_ray" /\ ret[2].returned = Some(Ok(NoHit))) =>
        /\ SortedByProjection(NodeOrder, MeshSpaceRay(arg.mesh_transform, arg.ray))
        /\ \A e \in 1..Len(ret[2].expanded) :
              \E kids \in {NearToFar(ret[1].val, ret[2].expanded[e].node)} :
                 /\ \A k \in 1..Len(kids) : PoppedAt(kids[k]) # {}
                 /\ \A j, k \in 1..Len(kids) :
                       j < k => \A p \in PoppedAt(kids[j]) : \A q \in PoppedAt(kids[k]) : p < q
                 /\ \A k \in 1..Len(kids) :
                    \A b \in 1..Len(ret[2].expanded[e].below) :
                       \A p \in PoppedAt(kids[k]) :
                       \A q \in PoppedAt(ret[2].expanded[e].below[b]) : p < q

-----------------------------------------------------------------------------
(* octree/mod.rs: MeshOctree::from_mesh, one turn of its loop at a time.
   ret[1] holds the locals of the call, nodes, leaves and op_stack, then the
   octree it returns or its panic. *)

\* n copies of a triangle, as an indexed mesh.
Copies(triangle, n) == MeshOfTriangles([k \in 1..n |-> triangle], TRUE)

\* A small triangle in the corner of the cube around the origin with half
\* extents 2048: it fits in the smallest cell of the corner.
CornerTriangle ==
    << <<-2047, -2047, -2045>>, <<-2047, -2045, -2047>>, <<-2047, -2047, -2047>> >>

\* The builds: few and many copies of one triangle in a large cube, and the
\* meshes of one wall and of two walls in their own box and in a cube.
BuildInputs ==
    { [mesh |-> Copies(tri, n), aabb |-> Aabb(<<0, 0, 0>>, <<2048, 2048, 2048>>)] :
        tri \in {CornerTriangle, Reversed(CornerTriangle)},
        n \in {1, MIN_TRIS_PER_LEAF, MIN_TRIS_PER_LEAF + 1, MIN_TRIS_PER_LEAF + 2} }
    \cup { [mesh |-> MeshOfTriangles(<<tri>> \o more, indexed), aabb |-> aabb] :
             tri \in {Wall(5), Wall(-3)}, more \in {<< >>, <<Wall(2)>>},
             indexed \in BOOLEAN,
             aabb \in {Aabb(<<0, 0, 0>>, <<32, 32, 32>>), WallAabb} }

InitBuild ==
    /\ SceneOff
    /\ fn = "from_mesh"
    /\ arg \in BuildInputs
    /\ ret = << >>

\* The triangles of the mesh are collected and pushed with the root address.
PushRoot ==
    /\ fn = "from_mesh"
    /\ ret = << >>
    /\ \E root_tris \in {iter_triangles(arg.mesh)} :
          ret' = <<IF root_tris.kind = "panic" THEN Panic
                   ELSE [kind |-> "running", nodes |-> << >>, leaves |-> << >>,
                         op_stack |-> <<<<new_root, root_tris.val>>>>]>>
    /\ UNCHANGED <<sceneVars, fn, arg>>

\* One turn of `while let Some((parent_addr, parent_tris)) = op_stack.pop()`
\* with a parent on the stack.
PopParent ==
    /\ fn = "from_mesh"
    /\ ret # << >>
    /\ ret[1].kind = "running"
    /\ ret[1].op_stack # << >>
    /\ \E parent \in {ret[1].op_stack[Len(ret[1].op_stack)]} :
       \E st \in {EvaluateChildren(0, parent[1], parent[2], arg.mesh, arg.aabb,
                                   [children |-> 0, leaves |-> ret[1].leaves,
                                    op_stack |-> SubSeq(ret[1].op_stack, 1,
                                                        Len(ret[1].op_stack) - 1)])} :
          ret' = <<[kind |-> "running",
                    nodes |-> MapInsert(ret[1].nodes, parent[1], st.children),
                    leaves |-> st.leaves,
                    op_stack |-> st.op_stack]>>
    /\ UNCHANGED <<sceneVars, fn, arg>>

\* The stack is empty: from_mesh returns Self { nodes, leaves }.
ReturnSelf ==
    /\ fn = "from_mesh"
    /\ ret # << >>
    /\ ret[1].kind = "running"
    /\ ret[1].op_stack = << >>
    /\ ret' = <<Ok([nodes |-> ret[1].nodes, leaves |-> ret[1].leaves])>>
    /\ UNCHANGED <<sceneVars, fn, arg>>

NextBuild == PushRoot \/ PopParent \/ ReturnSelf

SpecBuild == InitBuild /\ [][NextBuild]_vars

\* The call runs on until it returns or panics.
SpecBuildFair == SpecBuild /\ WF_vars(NextBuild)

\* The addresses the call holds: the keys of nodes and leaves and the
\* entries of the stack, which become nodes when they are popped.
BuiltNodes == IF ret[1].kind = "running" THEN ret[1].nodes ELSE ret[1].val.nodes

BuiltLeaves == IF ret[1].kind = "running" THEN ret[1].leaves ELSE ret[1].val.leaves

DepthsBounded ==
    fn = "from_mesh" /\ ret # << >> /\ ret[1].kind \in {"running", "ok"} =>
        /\ \A address \in DOMAIN BuiltNodes : depth(address) <= MAX_NODE_DEPTH - 1
        /\ \A address \in DOMAIN BuiltLeaves : depth(address) <= MAX_NODE_DEPTH
        /\ ret[1].kind = "running" =>
              \A k \in 1..Len(ret[1].op_stack) :
                  depth(ret[1].op_stack[k][1]) <= MAX_NODE_DEPTH - 1
        /\ \A address \in DOMAIN BuiltNodes \cup DOMAIN BuiltLeaves :
              Len(address) <= 2 + ADDRESS_BITS * MAX_NODE_DEPTH

\* C28: from_mesh comes to an end for every mesh, also one with more than
\* MIN_TRIS_PER_LEAF triangles over the same point, and at no moment holds an
\* internal node deeper than 9 or a leaf deeper than 10, so that an address
\* has at most 10 triplets.
C28_FromMeshEndsWithinDepth ==
    /\ [](fn = "from_mesh" => DepthsBounded)
    /\ <>(fn = "from_mesh" => ret # << >> /\ ret[1].kind \in {"ok", "panic"})

\* A build has returned with a leaf at depth 10 that holds more triangles
\* than the cutoff.
C28_Witness ==
    /\ fn = "from_mesh"
    /\ ret # << >>
    /\ ret[1].kind = "ok"
    /\ \E address \in DOMAIN ret[1].val.leaves :
          /\ depth(address) = MAX_NODE_DEPTH
          /\ Len(ret[1].val.leaves[address]) > MIN_TRIS_PER_LEAF

-----------------------------------------------------------------------------
(* lib.rs: the system build_rays.  arg is pick_source_query: each source
   with the Camera and the GlobalTransform of its entity.  ret holds the
   order in which the last run of the system went through the query. *)

\* RaycastSource<T> of lib.rs with the components of its entity.
LibSource(cast_method, camera, transform) ==
    [cast_method |-> cast_method, ray |-> None, camera |-> camera,
     transform |-> transform]

\* The body of the loop for one source: Some(value) when the match yields
\* the value assigned to pick_source.ray, None when an arm ends in `return`.
MatchCastMethod(pick_source) ==
    CASE pick_source.cast_method.kind = "Screenspace" ->
            IF ~pick_source.camera.some THEN None         \* error!(...); return
            ELSE IF ~pick_source.transform.some THEN None \* error!(...); return
            ELSE Some(from_screenspace(pick_source.cast_method.pos,
                                       pick_source.camera.val,
                                       pick_source.transform.val))
      [] pick_source.cast_method.kind = "Transform" ->
            IF ~pick_source.transform.some THEN None      \* error!(...); return
            ELSE Some(Some(from_transform(pick_source.transform.val)))

\* `for (mut pick_source, transform, camera) in &mut pick_source_query`, the
\* query yielding the sources in `order`.
RECURSIVE lib_build_rays(_, _)
lib_build_rays(pick_source_query, order) ==
    IF order = << >> THEN pick_source_query
    ELSE Bind(MatchCastMethod(pick_source_query[Head(order)]),
              LAMBDA matched :
                 IF ~matched.some THEN pick_source_query
                 ELSE lib_build_rays([pick_source_query EXCEPT
                                         ![Head(order)].ray = matched.val],
                                     Tail(order)))

\* The sources of lib.rs: by the screen with and without the Camera and the
\* GlobalTransform, by the transform with two transforms and with none.
LibSourceKinds ==
    { LibSource(Screenspace(<<1, 1>>), Some(ViewportCamera), Some(CameraTransform)),
      LibSource(Screenspace(<<1, 1>>), None, Some(CameraTransform)),
      LibSource(Screenspace(<<2, 1>>), Some(ViewportCamera), None),
      LibSource(Transform, None, Some(PointerTransform)),
      LibSource(Transform, None, Some(CameraTransform)),
      LibSource(Transform, None, None) }

InitLibRays ==
    /\ SceneOff
    /\ fn = "build_rays"
    /\ arg \in [Sources -> LibSourceKinds]
    /\ ret = << >>

\* One run of the system build_rays.
LibBuildRays ==
    /\ fn = "build_rays"
    /\ \E order \in Orders(Sources) :
          /\ arg' = lib_build_rays(arg, order)
          /\ ret' = <<order>>
    /\ UNCHANGED <<sceneVars, fn>>

\* Between two runs the app changes the cast method or the components of
\* the entity of a source; the ray of the source stays as it is.
ChangeSource ==
    /\ fn = "build_rays"
    /\ \E id \in Sources, kind \in LibSourceKinds :
          /\ kind.cast_method # arg[id].cast_method
                \/ kind.camera # arg[id].camera
                \/ kind.transform # arg[id].transform
          /\ arg' = [arg EXCEPT ![id] = [kind EXCEPT !.ray = arg[id].ray]]
    /\ ret' = << >>
    /\ UNCHANGED <<sceneVars, fn>>

NextLibRays == LibBuildRays \/ ChangeSource

SpecLibRays == InitLibRays /\ [][NextLibRays]_vars

\* The source has the components its cast method requires.
HasRequiredComponents(pick_source) ==
    IF pick_source.cast_method.kind = "Screenspace"
    THEN pick_source.camera.some /\ pick_source.transform.some
    ELSE pick_source.transform.some

\* C29: after build_rays every source that has the components its cast
\* method requires holds the ray built from its current inputs, whatever the
\* order of the sources and whatever the other sources lack.
C29_EveryBuildableSourceGetsItsRay ==
    fn = "build_rays" /\ ret # << >> =>
        \A id \in Sources :
            HasRequiredComponents(arg[id]) =>
                arg[id].ray = MatchCastMethod(arg[id]).val

-----------------------------------------------------------------------------
(* lib.rs: the system update_raycast for one source, closure by closure.
   arg holds the world, the ray and the cast method of the source.  ret[1]
   holds the locals of the loop body: culled_list, the closures of
   par_for_each that have not run yet, the BTreeMap picks, and at the end
   the intersections of the source. *)

\* should_raycast of lib.rs: Visibility::is_visible, and for a source that
\* casts by the screen also ComputedVisibility::is_visible().
lib_should_raycast(cast_method, visibility) ==
    IF cast_method.kind = "Screenspace"
    THEN visibility.hierarchy /\ visibility.view
    ELSE visibility.hierarchy

\* The filter_map closure of the culling: whether the entity is kept.
lib_culled(r, cast_method, c) ==
    IF ~lib_should_raycast(cast_method, c.visibility) THEN FALSE
    ELSE IF ~c.aabb.some THEN TRUE
    ELSE Bind(intersects_aabb(r, c.aabb.val, c.transform),
              LAMBDA aabb_hit : aabb_hit.some /\ FLe(FInt(0), aabb_hit.far))

\* BTreeMap::insert on the map kept as the sequence of its entries in the
\* order of the keys: the value of an equal key is replaced.
RECURSIVE BTreeMapInsert(_, _, _)
BTreeMapInsert(map, key, value) ==
    IF map = << >> THEN << <<key, value>> >>
    ELSE IF FloatOrdLt(key, Head(map)[1]) THEN << <<key, value>> >> \o map
    ELSE IF FloatOrdLt(Head(map)[1], key)
    THEN <<Head(map)>> \o BTreeMapInsert(Tail(map), key, value)
    ELSE << <<key, value>> >> \o Tail(map)

\* The closure pick_mesh for one entity of mesh_query: the map afterwards,
\* or a panic.
pick_mesh(world, r, culled, picks, entity) ==
    IF entity \notin culled THEN Ok(picks)
    ELSE Bind(MeshOf(MeshAssets, narrow_mesh_handle(world[entity].mesh,
                                                    world[entity].simplified_mesh)),
              LAMBDA mesh :
                 IF ~mesh.some THEN Ok(picks)
                 ELSE Bind(ray_intersection_over_mesh(
                               mesh.val, world[entity].transform, r,
                               Backfaces(world[entity].no_backface_culling)),
                           LAMBDA res :
                              IF res.kind = "panic" THEN Panic
                              ELSE IF ~res.hit.some THEN Ok(picks)
                              ELSE Ok(BTreeMapInsert(picks, res.hit.distance,
                                                     <<entity, res.hit>>))))

\* The meshes of the scenes of lib.rs, all with RaycastMesh<T>: two walls at
\* 4, one of them seen from both sides, a wall at 8, one off the ray, one
\* without Aabb and one that is not in view.
LibEntityKinds ==
    { Bundle("wall", Placed(<<4, 0, 0>>, 1, 1), Some(WallAabb), TRUE, TRUE, FALSE),
      Bundle("wall", Placed(<<4, 0, 0>>, 1, 1), Some(WallAabb), TRUE, TRUE, TRUE),
      Bundle("wall", Placed(<<8, 0, 0>>, 1, 1), Some(WallAabb), TRUE, TRUE, FALSE),
      Bundle("off_wall", Placed(<<4, 0, 0>>, 1, 1), Some(WallAabb), TRUE, TRUE, FALSE),
      Bundle("wall", Placed(<<2, 0, 0>>, 1, 1), None, TRUE, TRUE, FALSE),
      Bundle("wall", Placed(<<6, 0, 0>>, 1, 1), Some(WallAabb), TRUE, FALSE, FALSE) }

InitLibCast ==
    /\ SceneOff
    /\ fn = "update_raycast"
    /\ arg \in [world : [Entities -> LibEntityKinds],
                ray : {Ray3dNew(<<0, 0, 0>>, <<1, 0, 0>>)},
                cast_method : {Screenspace(<<1, 1>>), Transform}]
    /\ ret = << >>

\* pick_source.intersections.clear(), the culling, and the empty map.
CullEntities ==
    /\ fn = "update_raycast"
    /\ ret = << >>
    /\ \E culled \in {{e \in DOMAIN arg.world :
                          lib_culled(arg.ray, arg.cast_method, arg.world[e])}} :
          ret' = <<[kind |-> "running", culled_list |-> culled,
                    todo |-> DOMAIN arg.world, picks |-> << >>]>>
    /\ UNCHANGED <<sceneVars, fn, arg>>

\* One closure of mesh_query.par_for_each runs; the Mutex makes its insert
\* one step.
PickMesh ==
    /\ fn = "update_raycast"
    /\ ret # << >>
    /\ ret[1].kind = "running"
    /\ \E entity \in ret[1].todo :
       \E picked \in {pick_mesh(arg.world, arg.ray, ret[1].culled_list,
                                ret[1].picks, entity)} :
          ret' = <<IF picked.kind = "panic" THEN Panic
                   ELSE [ret[1] EXCEPT !.todo = @ \ {entity}, !.picks = picked.val]>>
    /\ UNCHANGED <<sceneVars, fn, arg>>

\* All closures have run: picks.into_values() becomes the intersections.
CollectPicks ==
    /\ fn = "update_raycast"
    /\ ret # << >>
    /\ ret[1].kind = "running"
    /\ ret[1].todo = {}
    /\ ret' = <<[kind |-> "ok", culled_list |-> ret[1].culled_list,
                 intersections |-> [i \in 1..Len(ret[1].picks) |-> ret[1].picks[i][2]]]>>
    /\ UNCHANGED <<sceneVars, fn, arg>>

NextLibCast == CullEntities \/ PickMesh \/ CollectPicks

SpecLibCast == InitLibCast /\ [][NextLibCast]_vars

\* The culled entities whose mesh the ray hits.
LibHitEntities ==
    {e \in ret[1].culled_list :
        pick_mesh(arg.world, arg.ray, ret[1].culled_list, << >>, e) # Ok(<< >>)}

\* C30: after the parallel narrow phase the intersections of the source
\* hold one entry for every culled entity whose mesh the ray hits, in
\* whatever order the closures inserted and also when two entities are hit
\* at the same distance.
C30_OneEntryPerHitEntity ==
    fn = "update_raycast" /\ ret # << >> /\ ret[1].kind = "ok" =>
        /\ {ret[1].intersections[i][1] : i \in 1..Len(ret[1].intersections)}
              = LibHitEntities
        /\ Len(ret[1].intersections) = Cardinality(LibHitEntities)

=============================================================================
